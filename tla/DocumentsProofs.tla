--------------------------- MODULE DocumentsProofs --------------------------
(***************************************************************************)
(* Theorems about Documents, for any team, contents and number of          *)
(* versions.                                                               *)
(*                                                                         *)
(* The argument: whoever holds the version of the row holds the row as it  *)
(* is.  So an UPDATE guarded by the version of the page finds the row that *)
(* the page showed and that its transaction read (AsIfAlone), and          *)
(* everything else is about a client who works alone.                      *)
(***************************************************************************)
EXTENDS Documents, SequenceTheorems, TLAPS

Working == {"page", "asked", "tx"}

\* A copy of the row that is as old as its version says.
CopyOf(copy) ==
  copy.version <= doc.version /\ (copy.version = doc.version => copy = doc)

\* What a page shows and what a transaction has read, while the post exists.
Copies ==
  Exists(doc) =>
    \A u \in Users :
      /\ client[u].phase \in Working => CopyOf(client[u].seen)
      /\ client[u].phase = "tx" =>
           /\ CopyOf(client[u].current)
           /\ client[u].seen.version <= client[u].current.version

\* Nobody works on a post that was never created.
Beginning ==
  /\ doc.status = "absent" => \A u \in Users : client[u].phase = "away"
  /\ doc.status = "absent" => automatic = 0

\* A post has a draft and one revision for each of its versions.
Recording ==
  /\ revisions \in Seq(Contents)
  /\ Exists(doc) => doc.draft \in Contents /\ Len(revisions) = doc.version
  /\ ~Exists(doc) => revisions = <<>>
  /\ ~Exists(doc) => doc.draft = NoContent /\ doc.published = NoContent

\* A request for an edit carries content; one for a publication was noted.
Asking ==
  \A u \in Users :
    client[u].phase \in {"asked", "tx"} =>
      /\ client[u].request \in Edits => client[u].data \in Contents
      /\ client[u].request = "publish" /\ u \in Editors
           => client[u].seen.draft \in approved

\* Whoever holds the lock holds the public row as it is.
Locking ==
  /\ \A u \in Users : client[u].phase = "locked" <=> lock = u
  /\ \A u \in Users : lock = u => client[u].current = doc /\ Public(doc)

\* One automatic mailing for the one marker of a post.
Mailing ==
  /\ AutomaticNoticeOnce
  /\ Exists(doc) /\ automatic = 1 => marker
  /\ OpenMailIsPublic

IInv ==
  TypeOK /\ Copies /\ Beginning /\ Recording /\ Asking /\ Locking
  /\ PublishedWasApproved /\ Mailing
-----------------------------------------------------------------------------
(* The row and its copies. *)

\* Whoever may update the row has been shown the row, and read it, as it is.
LEMMA AsIfAlone ==
  ASSUME IInv, NEW u \in Users, CanUpdate(u)
  PROVE  /\ Exists(doc)
         /\ client[u].seen = doc
         /\ client[u].current = doc
         /\ Allowed(u, doc, client[u].request)
         /\ client[u].phase = "tx"
         /\ lock = Nobody
<1>1. Exists(doc) /\ doc.version = client[u].seen.version
  BY DEF CanUpdate, SameVersion
<1>2. client[u].phase = "tx"
  BY DEF CanUpdate
<1>3. /\ CopyOf(client[u].seen) /\ CopyOf(client[u].current)
      /\ client[u].seen.version <= client[u].current.version
  BY <1>1, <1>2 DEF IInv, Copies, Working
<1>4. /\ doc.version \in Nat
      /\ client[u].current.version \in Nat
  <2>1. doc \in Document /\ client[u] \in Client
    BY DEF IInv, TypeOK
  <2>2. client[u].current \in Document
    BY <2>1 DEF Client
  <2> QED BY <2>1, <2>2 DEF Document
<1>5. client[u].current.version = doc.version
  BY <1>1, <1>3, <1>4 DEF CopyOf
<1>6. client[u].seen = doc /\ client[u].current = doc
  BY <1>1, <1>3, <1>5 DEF CopyOf
<1> QED BY <1>1, <1>2, <1>6 DEF CanUpdate

\* What an update makes of the row.
LEMMA UpdatedRow ==
  ASSUME NEW row \in Document, row.trashed <=> row.status = "archived",
         NEW u \in Users, NEW request \in Edits \union Transitions,
         NEW x \in Drafts, Allowed(u, row, request), request # "delete"
  PROVE  LET new == Updated(row, row, request, x)
         IN /\ new \in Document
            /\ new.trashed <=> new.status = "archived"
            /\ new.version = row.version + 1
            /\ new.draft = IF request \in Edits THEN x ELSE row.draft
            /\ Exists(new)
<1> DEFINE new == Updated(row, row, request, x)
<1>1. /\ row.status \in Statuses /\ row.version \in Nat
      /\ row.draft \in Drafts /\ row.published \in Drafts
      /\ row.trashed \in BOOLEAN
  BY DEF Document
<1>2. /\ new.status \in {"draft", "review", "published", "archived"}
      /\ new.trashed <=> new.status = "archived"
  <2>1. CASE request \in Edits
    <3>1. /\ request # "publish" /\ request # "unpublish" /\ request # "trash"
          /\ request # "restore"
      BY <2>1 DEF Edits
    <3>2. row.status \in {"draft", "review", "published"}
      BY <1>1, <2>1 DEF Allowed, MayEdit, Exists, Statuses
    <3> QED BY <2>1, <3>1, <3>2 DEF Updated
  <2>2. CASE request \in Transitions
    <3>1. /\ request \notin Edits
          /\ request \in {"submit", "return", "publish", "unpublish", "trash",
                         "restore"}
      BY <2>2 DEF Edits, Transitions
    <3>2. /\ NextStatus(row, request) \in {"draft", "review", "published",
                                           "archived"}
          /\ NextStatus(row, request) = "archived" <=> request = "trash"
      BY <3>1 DEF NextStatus
    <3>3. request \in {"trash", "publish", "restore"} \/ row.status # "archived"
      BY <2>2, <3>1 DEF Allowed, MayMove
    <3> QED BY <3>1, <3>2, <3>3 DEF Updated
  <2> QED BY <2>1, <2>2
<1>3. /\ new.version = row.version + 1
      /\ new.draft = IF request \in Edits THEN x ELSE row.draft
  BY DEF Updated
<1>4. new \in Document
  <2>1. new.status \in Statuses
    BY <1>2 DEF Statuses
  <2>2. new.published \in Drafts /\ new.draft \in Drafts
    BY <1>1 DEF Updated, Drafts
  <2> QED BY <1>1, <2>1, <2>2 DEF Updated, Document
<1> QED BY <1>2, <1>3, <1>4 DEF Exists

\* Recording a revision for the next version appends it.
LEMMA Appended ==
  ASSUME NEW s \in Seq(Contents), NEW x \in Contents
  PROVE  /\ [n \in DOMAIN s \union {Len(s) + 1} |->
               IF n = Len(s) + 1 THEN x ELSE s[n]] = Append(s, x)
         /\ Append(s, x) \in Seq(Contents)
         /\ Len(Append(s, x)) = Len(s) + 1
<1> DEFINE t == [n \in DOMAIN s \union {Len(s) + 1} |->
                   IF n = Len(s) + 1 THEN x ELSE s[n]]
<1>1. DOMAIN s = 1..Len(s) /\ Len(s) \in Nat
  BY LenProperties
<1>2. /\ Append(s, x) \in Seq(Contents)
      /\ Len(Append(s, x)) = Len(s) + 1
      /\ \A i \in 1..Len(s) : Append(s, x)[i] = s[i]
      /\ Append(s, x)[Len(s) + 1] = x
  BY AppendProperties
<1>3. DOMAIN s \union {Len(s) + 1} = 1..(Len(s) + 1)
  BY <1>1
<1>4. t = [n \in 1..(Len(s) + 1) |-> IF n = Len(s) + 1 THEN x ELSE s[n]]
  BY <1>3
<1>5. t \in Seq(Contents) /\ Len(t) = Len(s) + 1
  <2>1. \A n \in 1..(Len(s) + 1) :
          (IF n = Len(s) + 1 THEN x ELSE s[n]) \in Contents
    BY <1>1, ElementOfSeq
  <2> HIDE DEF t
  <2>2. t \in [1..(Len(s) + 1) -> Contents]
    BY <1>4, <2>1
  <2>3. t \in Seq(Contents)
    BY <1>1, <2>2
  <2> QED BY <1>1, <2>2, <2>3, LenProperties
<1>6. \A i \in 1..Len(t) : t[i] = Append(s, x)[i]
  BY <1>1, <1>2, <1>4, <1>5
<1>7. t = Append(s, x)
  <2> HIDE DEF t
  <2> QED BY <1>2, <1>5, <1>6, SeqEqual
<1> QED BY <1>2, <1>7

\* The members of the state, one by one.
LEMMA Types ==
  ASSUME IInv
  PROVE  /\ doc \in Document
         /\ doc.version \in Nat
         /\ doc.draft \in Drafts /\ doc.published \in Drafts
         /\ \A u \in Users :
              /\ client[u] \in Client
              /\ client[u].seen \in Document /\ client[u].current \in Document
              /\ client[u].request \in Edits \union Transitions
              /\ client[u].data \in Drafts
         /\ revisions \in Seq(Contents)
BY DEF IInv, TypeOK, Document, Client, Recording

\* An update is the request of one client applied to the row as it is.
LEMMA UpdateAlone ==
  ASSUME IInv, NEW u \in Users, Update(u)
  PROVE  /\ Exists(doc) /\ Exists(doc') /\ lock = Nobody
         /\ client[u].phase = "tx" /\ client[u].request # "delete"
         /\ client[u].seen = doc
         /\ Allowed(u, doc, client[u].request)
         /\ doc' = Updated(doc, doc, client[u].request, client[u].data)
         /\ doc' \in Document
         /\ doc'.trashed <=> doc'.status = "archived"
         /\ doc'.version = doc.version + 1
         /\ doc'.draft = IF client[u].request \in Edits
                         THEN client[u].data ELSE doc.draft
         /\ doc'.draft \in Contents
         /\ revisions' = Append(revisions, doc'.draft)
         /\ UpdateMail(doc, client[u].request, client[u].delivery)
<1>1. CanUpdate(u) /\ client[u].request # "delete"
  BY DEF Update
<1>2. /\ Exists(doc) /\ client[u].seen = doc /\ client[u].current = doc
      /\ Allowed(u, doc, client[u].request)
      /\ client[u].phase = "tx" /\ lock = Nobody
  BY <1>1, AsIfAlone
<1>3. /\ doc' = Updated(doc, doc, client[u].request, client[u].data)
      /\ Record(doc'.version, IF client[u].request \in Edits
                              THEN client[u].data ELSE doc.draft)
      /\ UpdateMail(doc, client[u].request, client[u].delivery)
  BY <1>2 DEF Update
<1>4. /\ doc' \in Document
      /\ doc'.trashed <=> doc'.status = "archived"
      /\ doc'.version = doc.version + 1
      /\ doc'.draft = IF client[u].request \in Edits
                      THEN client[u].data ELSE doc.draft
      /\ Exists(doc')
  <2>1. doc.trashed <=> doc.status = "archived"
    BY DEF IInv, TypeOK
  <2> QED BY <1>1, <1>2, <1>3, <2>1, Types, UpdatedRow
<1>5. doc'.draft \in Contents
  BY <1>2, <1>4 DEF IInv, Asking, Recording
<1>6. revisions' = Append(revisions, doc'.draft)
  <2>1. Len(revisions) = doc.version /\ revisions \in Seq(Contents)
    BY <1>2 DEF IInv, Recording
  <2>2. revisions' = [n \in DOMAIN revisions \union {Len(revisions) + 1} |->
                        IF n = Len(revisions) + 1 THEN doc'.draft
                        ELSE revisions[n]]
    BY <1>3, <1>4, <2>1 DEF Record
  <2> QED BY <1>5, <2>1, <2>2, Appended
<1> QED BY <1>1, <1>2, <1>3, <1>4, <1>5, <1>6
-----------------------------------------------------------------------------
(* Types. *)

LEMMA Pages ==
  ASSUME NEW phase \in Phases, NEW row \in Document
  PROVE  LET c == [NoClient EXCEPT !.phase = phase, !.seen = row]
         IN c \in Client /\ c.phase = phase /\ c.seen = row
<1>1. /\ NoDocument \in Document
  BY DEF NoDocument, Document, Statuses, Drafts
<1> QED BY <1>1 DEF NoClient, Client, Edits, Drafts

LEMMA NobodyThere ==
  NoClient \in Client /\ NoClient.phase = "away" /\ NoDocument \in Document
<1>1. NoDocument \in Document
  BY DEF NoDocument, Document, Statuses, Drafts
<1> QED BY <1>1 DEF NoClient, Client, Edits, Drafts, Phases

LEMMA TypesAtFirst == Init => TypeOK
<1> SUFFICES ASSUME Init PROVE TypeOK
  OBVIOUS
<1>1. NoDocument \in Document /\ NoClient \in Client
  BY NobodyThere
<1>2. /\ DOMAIN revisions \subseteq Nat
      /\ \A n \in DOMAIN revisions : revisions[n] \in Drafts
  BY DEF Init
<1>3. doc \in Document /\ (doc.trashed <=> doc.status = "archived")
  BY <1>1 DEF Init, NoDocument
<1>4. client \in [Users -> Client] /\ notice \in Notice
  BY <1>1 DEF Init, Notice, Drafts
<1>5. automatic \in 0..2
  BY DEF Init
<1>6. lock \in Users \union {Nobody} /\ approved \subseteq Drafts
  BY DEF Init
<1>7. marker \in BOOLEAN /\ retried \in BOOLEAN
  BY Zenon DEF Init
<1> QED BY <1>2, <1>3, <1>4, <1>5, <1>6, <1>7 DEF TypeOK

LEMMA MailTypes ==
  ASSUME TypeOK, NEW content \in Drafts
  PROVE  Suppressed(notice) \in Notice /\ Queued(notice, content) \in Notice
BY DEF TypeOK, Suppressed, Queued, Notice

LEMMA UpdateMailTypes ==
  ASSUME TypeOK, NEW row \in Document, NEW request, NEW delivery,
         UpdateMail(row, request, delivery)
  PROVE  notice' \in Notice /\ marker' \in BOOLEAN /\ automatic' \in 0..2
<1>1. row.draft \in Drafts
  BY DEF Document
<1>2. Suppressed(notice) \in Notice /\ Queued(notice, row.draft) \in Notice
  BY <1>1, MailTypes
<1>3. notice \in Notice /\ marker \in BOOLEAN /\ automatic \in 0..2
  BY DEF TypeOK
<1>4. notice' \in Notice /\ automatic' \in 0..2
  BY <1>2, <1>3 DEF UpdateMail, mail
<1>5. marker' \in BOOLEAN
  <2>1. \/ marker' = (marker /\ request # "delete") \/ marker' = TRUE
        \/ marker' = marker
    BY Zenon DEF UpdateMail, mail
  <2> QED BY <1>3, <2>1
<1> QED BY <1>4, <1>5

LEMMA TypesStay == IInv /\ [Next]_vars => TypeOK'
<1> SUFFICES ASSUME IInv, [Next]_vars PROVE TypeOK'
  OBVIOUS
<1>t. TypeOK
  BY DEF IInv
<1>1. ASSUME NEW u \in Users, NEW x \in Contents, Create(u, x) PROVE TypeOK'
  <2>1. /\ doc' = [NoDocument EXCEPT !.status = "draft", !.version = 1,
                                     !.draft = x]
        /\ revisions' = [n \in {1} |-> x]
    BY <1>1 DEF Create
  <2>2. doc' \in Document /\ ~doc'.trashed /\ doc'.status = "draft"
    BY <2>1 DEF NoDocument, Document, Statuses, Drafts
  <2>3. client' = [client EXCEPT ![u] =
                     [NoClient EXCEPT !.phase = "page", !.seen = doc']]
    BY <1>1 DEF Create
  <2>4. client' \in [Users -> Client]
    BY <1>t, <2>2, <2>3, Pages DEF TypeOK, Phases
  <2>5. DOMAIN revisions' \subseteq Nat
        /\ \A n \in DOMAIN revisions' : revisions'[n] \in Drafts
    BY <2>1 DEF Drafts
  <2> QED BY <1>t, <1>1, <2>2, <2>4, <2>5 DEF TypeOK, Create, mail
<1>2. ASSUME NEW u \in Users, Load(u) \/ Refuse(u) \/ Preview(u)
      PROVE TypeOK'
  <2>1. PICK phase \in Phases, row \in {doc, client[u].seen} :
          client' = [client EXCEPT ![u] =
                       [NoClient EXCEPT !.phase = phase, !.seen = row]]
    <3>1. {"page", "preview"} \subseteq Phases
      BY DEF Phases
    <3> QED BY <1>2, <3>1 DEF Load, Refuse, Preview
  <2>2. client' \in [Users -> Client]
    BY <1>t, <2>1, Types, Pages DEF TypeOK
  <2> QED BY <1>t, <1>2, <2>2 DEF TypeOK, Load, Refuse, Preview, mail
<1>3. ASSUME NEW u \in Users, NEW request \in Edits \union Transitions,
             NEW x \in Drafts, NEW delivery \in BOOLEAN,
             Ask(u, request, x, delivery)
      PROVE TypeOK'
  <2>1. client' = [client EXCEPT ![u] = [client[u] EXCEPT !.phase = "asked",
                     !.request = request, !.data = x, !.delivery = delivery]]
    BY <1>t, <1>3 DEF Ask, TypeOK
  <2>2. client' \in [Users -> Client]
    BY <1>t, <2>1 DEF TypeOK, Client, Phases
  <2>3. approved' \subseteq Drafts
    <3>1. client[u].seen.draft \in Drafts
      BY Types DEF Document
    <3> QED BY <1>t, <1>3, <3>1 DEF Ask, TypeOK
  <2> QED BY <1>t, <1>3, <2>2, <2>3 DEF TypeOK, Ask, mail
<1>4. ASSUME NEW u \in Users, Begin(u) PROVE TypeOK'
  <2>1. client' = [client EXCEPT ![u] = [client[u] EXCEPT !.phase = "tx",
                                                          !.current = doc]]
    BY <1>t, <1>4 DEF Begin, TypeOK
  <2>2. client' \in [Users -> Client]
    BY <1>t, <2>1 DEF TypeOK, Client, Phases
  <2> QED BY <1>t, <1>4, <2>2 DEF TypeOK, Begin, mail
<1>5. ASSUME NEW u \in Users, Update(u) PROVE TypeOK'
  <2>1. PICK row \in {doc', client[u].seen} :
          client' = [client EXCEPT ![u] =
                       [NoClient EXCEPT !.phase = "page", !.seen = row]]
    BY <1>5 DEF Update
  <2>2. row \in Document
    BY <1>5, <2>1, UpdateAlone, Types
  <2>3. client' \in [Users -> Client]
    BY <1>t, <2>1, <2>2, Pages DEF TypeOK, Phases
  <2>4. doc' \in Document /\ (doc'.trashed <=> doc'.status = "archived")
    BY <1>5, UpdateAlone
  <2>5. DOMAIN revisions' \subseteq Nat
        /\ \A n \in DOMAIN revisions' : revisions'[n] \in Drafts
    <3>1. revisions' \in Seq(Contents)
      BY <1>5, UpdateAlone, Types, Appended
    <3> QED BY <3>1, LenProperties, ElementOfSeq DEF Drafts
  <2>6. notice' \in Notice /\ marker' \in BOOLEAN /\ automatic' \in 0..2
    BY <1>t, <1>5, UpdateAlone, UpdateMailTypes, Types
  <2> QED BY <1>t, <1>5, <2>3, <2>4, <2>5, <2>6 DEF TypeOK, Update
<1>6. ASSUME NEW u \in Users, Delete(u) PROVE TypeOK'
  <2>1. doc' = [NoDocument EXCEPT !.status = "deleted"] /\ revisions' = <<>>
    BY <1>6 DEF Delete
  <2>2. doc' \in Document /\ ~doc'.trashed /\ doc'.status = "deleted"
    BY <2>1 DEF NoDocument, Document, Statuses, Drafts
  <2>3. client' \in [Users -> Client]
    BY <1>t, <1>6, NobodyThere DEF Delete, Idle, TypeOK
  <2>4. notice' \in Notice /\ marker' \in BOOLEAN /\ automatic' \in 0..2
    BY <1>t, <1>6, UpdateMailTypes, Types DEF Delete
  <2> QED BY <1>t, <1>6, <2>1, <2>2, <2>3, <2>4 DEF TypeOK, Delete
<1>7. ASSUME NEW u \in Users, PushLock(u) PROVE TypeOK'
  <2>1. client' = [client EXCEPT ![u] = [client[u] EXCEPT !.phase = "locked",
                                                          !.current = doc]]
    BY <1>t, <1>7 DEF PushLock, TypeOK
  <2>2. client' \in [Users -> Client]
    BY <1>t, <2>1 DEF TypeOK, Client, Phases
  <2> QED BY <1>t, <1>7, <2>2 DEF TypeOK, PushLock, mail
<1>8. ASSUME NEW u \in Users, PushQueue(u) PROVE TypeOK'
  <2>1. client' \in [Users -> Client]
    BY <1>t, <1>8, NobodyThere DEF PushQueue, Idle, TypeOK
  <2>2. notice' \in Notice
    <3>1. client[u].current.published \in Drafts
      BY Types DEF Document
    <3> QED BY <1>t, <1>8, <3>1, MailTypes DEF PushQueue
  <2> QED BY <1>t, <1>8, <2>1, <2>2 DEF TypeOK, PushQueue
<1>9. ASSUME NEW u \in Users, PushFails(u) PROVE TypeOK'
  <2>1. client' \in [Users -> Client]
    BY <1>t, <1>9, NobodyThere DEF PushFails, Idle, TypeOK
  <2> QED BY <1>t, <1>9, <2>1 DEF TypeOK, PushFails, mail
<1>10. CASE MailSettles \/ MailRetried
  <2>1. notice' \in Notice
    BY <1>t, <1>10 DEF MailSettles, MailRetried, TypeOK, Notice
  <2> QED BY <1>t, <1>10, <2>1 DEF TypeOK, MailSettles, MailRetried
<1>11. CASE UNCHANGED vars
  BY <1>t, <1>11 DEF TypeOK, vars
<1> QED
  BY <1>1, <1>2, <1>3, <1>4, <1>5, <1>6, <1>7, <1>8, <1>9, <1>10, <1>11
  DEF Next
-----------------------------------------------------------------------------
(* The parts of the invariant, step by step. *)

\* A user who opens a page or a preview.
LEMMA Opens ==
  ASSUME TypeOK, NEW u \in Users, NEW phase \in Phases, NEW row \in Document,
         client' = [client EXCEPT ![u] =
                      [NoClient EXCEPT !.phase = phase, !.seen = row]]
  PROVE  /\ client'[u].phase = phase /\ client'[u].seen = row
         /\ \A v \in Users : v # u => client'[v] = client[v]
<1> DEFINE c == [NoClient EXCEPT !.phase = phase, !.seen = row]
<1>1. c.phase = phase /\ c.seen = row
  BY Pages
<1>2. client' = [client EXCEPT ![u] = c]
  OBVIOUS
<1> HIDE DEF c
<1>3. client'[u] = c /\ \A v \in Users : v # u => client'[v] = client[v]
  BY <1>2 DEF TypeOK
<1> QED BY <1>1, <1>3

LEMMA CopiesStay == IInv /\ [Next]_vars => Copies'
<1> SUFFICES ASSUME IInv, [Next]_vars, Exists(doc)', NEW v \in Users
    PROVE  (/\ client[v].phase \in Working => CopyOf(client[v].seen)
            /\ client[v].phase = "tx" =>
                 /\ CopyOf(client[v].current)
                 /\ client[v].seen.version <= client[v].current.version)'
  BY DEF Copies
<1>t. TypeOK
  BY DEF IInv
<1>c. ASSUME Exists(doc)
      PROVE  /\ client[v].phase \in Working => CopyOf(client[v].seen)
             /\ client[v].phase = "tx" =>
                  /\ CopyOf(client[v].current)
                  /\ client[v].seen.version <= client[v].current.version
  BY <1>c DEF IInv, Copies
<1>1. ASSUME NEW u \in Users, NEW x \in Contents, Create(u, x)
      PROVE  (/\ client[v].phase \in Working => CopyOf(client[v].seen)
              /\ client[v].phase # "tx")'
  <2>1. doc' \in Document
    BY <1>1, TypesStay DEF TypeOK, Next
  <2>2. client'[u].seen = doc' /\ client'[u].phase = "page"
    <3>1. client' = [client EXCEPT ![u] =
                       [NoClient EXCEPT !.phase = "page", !.seen = doc']]
      BY <1>1 DEF Create
    <3> QED BY <1>t, <2>1, <3>1, Opens DEF Phases
  <2>3. v # u => client'[v].phase = "away"
    BY <1>t, <1>1 DEF Create, TypeOK, IInv, Beginning
  <2>4. CopyOf(doc)'
    BY <2>1 DEF CopyOf, Document
  <2> QED BY <2>2, <2>3, <2>4 DEF Working, CopyOf
<1>2. ASSUME NEW u \in Users, Load(u) \/ Preview(u), v = u
      PROVE  (/\ client[v].phase \in Working => CopyOf(client[v].seen)
              /\ client[v].phase # "tx")'
  <2>1. doc' = doc /\ doc \in Document
    BY <1>t, <1>2 DEF Load, Preview, TypeOK
  <2>2. client'[u].seen = doc /\ client'[u].phase \in {"page", "preview"}
    <3>1. PICK phase \in {"page", "preview"} :
            client' = [client EXCEPT ![u] =
                         [NoClient EXCEPT !.phase = phase, !.seen = doc]]
      BY <1>2 DEF Load, Preview
    <3> QED BY <1>t, <2>1, <3>1, Opens DEF Phases
  <2>3. CopyOf(doc)
    BY <2>1 DEF CopyOf, Document
  <2> QED BY <1>2, <2>1, <2>2, <2>3 DEF CopyOf
<1>3. ASSUME NEW u \in Users, Refuse(u), v = u
      PROVE  (/\ client[v].phase \in Working => CopyOf(client[v].seen)
              /\ client[v].phase # "tx")'
  <2>1. client'[u].seen = client[u].seen /\ client'[u].phase = "page"
    <3>1. client' = [client EXCEPT ![u] =
                       [NoClient EXCEPT !.phase = "page",
                                        !.seen = client[u].seen]]
      BY <1>3 DEF Refuse
    <3> QED BY <1>t, <3>1, Types, Opens DEF Phases
  <2>2. client[u].phase \in Working /\ doc' = doc
    BY <1>3 DEF Refuse, Working
  <2> QED BY <1>c, <1>3, <2>1, <2>2 DEF CopyOf
<1>4. ASSUME NEW u \in Users, NEW request \in Edits \union Transitions,
             NEW x \in Drafts, NEW delivery \in BOOLEAN,
             Ask(u, request, x, delivery), v = u
      PROVE  (/\ client[v].phase \in Working => CopyOf(client[v].seen)
              /\ client[v].phase # "tx")'
  <2>1. client'[u].seen = client[u].seen /\ client'[u].phase = "asked"
    BY <1>t, <1>4 DEF Ask, TypeOK, Client
  <2>2. client[u].phase \in Working /\ doc' = doc
    BY <1>4 DEF Ask, Working
  <2> QED BY <1>c, <1>4, <2>1, <2>2 DEF CopyOf
<1>5. ASSUME NEW u \in Users, Begin(u), v = u
      PROVE  (/\ CopyOf(client[v].seen) /\ CopyOf(client[v].current)
              /\ client[v].seen.version <= client[v].current.version)'
  <2>1. /\ client'[u].seen = client[u].seen /\ client'[u].current = doc
    BY <1>t, <1>5 DEF Begin, TypeOK, Client
  <2>2. client[u].phase \in Working /\ doc' = doc
    BY <1>5 DEF Begin, Working
  <2>3. CopyOf(doc)
    BY <1>t DEF TypeOK, Document, CopyOf
  <2> QED BY <1>c, <1>5, <2>1, <2>2, <2>3 DEF CopyOf
<1>6. ASSUME NEW u \in Users, Update(u)
      PROVE  (/\ client[v].phase \in Working => CopyOf(client[v].seen)
              /\ client[v].phase = "tx" =>
                   /\ CopyOf(client[v].current)
                   /\ client[v].seen.version <= client[v].current.version)'
  <2>1. /\ doc' \in Document /\ doc'.version = doc.version + 1
        /\ Exists(doc) /\ client[u].seen = doc
    BY <1>6, UpdateAlone
  <2>2. CASE v = u
    <3>1. PICK row \in {doc', doc} :
            client' = [client EXCEPT ![u] =
                         [NoClient EXCEPT !.phase = "page", !.seen = row]]
      BY <1>6, <2>1 DEF Update
    <3>2. client'[u].phase = "page" /\ client'[u].seen \in {doc, doc'}
      <4>1. row \in Document /\ "page" \in Phases
        BY <1>t, <2>1 DEF TypeOK, Phases
      <4> QED BY <1>t, <3>1, <4>1, Opens
    <3>3. CopyOf(doc)' /\ doc.version <= doc'.version
          /\ doc.version # doc'.version
      BY <2>1, Types DEF CopyOf, Document
    <3> QED BY <2>2, <3>2, <3>3 DEF CopyOf
  <2>3. CASE v # u
    <3>1. client'[v] = client[v]
      BY <1>t, <1>6, <2>3 DEF Update, TypeOK
    <3>2. /\ client[v].seen.version \in Nat
          /\ client[v].current.version \in Nat /\ doc.version \in Nat
      BY Types DEF Document
    <3>3. \A row : row.version \in Nat /\ CopyOf(row) => CopyOf(row)'
      BY <2>1, <3>2 DEF CopyOf
    <3> QED BY <1>c, <2>1, <3>1, <3>2, <3>3 DEF CopyOf
  <2> QED BY <2>2, <2>3
<1>7. ASSUME NEW u \in Users, Delete(u) PROVE ~Exists(doc)'
  BY <1>7 DEF Delete, Exists, NoDocument
<1>8. ASSUME NEW u \in Users, PushLock(u), v = u
      PROVE  client'[v].phase = "locked"
  BY <1>t, <1>8 DEF PushLock, TypeOK, Client
<1>9. ASSUME NEW u \in Users, PushQueue(u) \/ PushFails(u), v = u
      PROVE  client'[v].phase = "away"
  BY <1>t, <1>9, NobodyThere DEF PushQueue, PushFails, Idle, TypeOK
<1>10. ASSUME client'[v] = client[v], doc' = doc
       PROVE  (/\ client[v].phase \in Working => CopyOf(client[v].seen)
               /\ client[v].phase = "tx" =>
                    /\ CopyOf(client[v].current)
                    /\ client[v].seen.version <= client[v].current.version)'
  BY <1>c, <1>10 DEF CopyOf
<1>11. ASSUME NEW u \in Users, v # u,
              \/ Load(u) \/ Preview(u) \/ Refuse(u) \/ Begin(u) \/ PushLock(u)
              \/ PushQueue(u) \/ PushFails(u)
              \/ \E request \in Edits \union Transitions, x \in Drafts,
                    delivery \in BOOLEAN : Ask(u, request, x, delivery)
       PROVE  client'[v] = client[v] /\ doc' = doc
  BY <1>t, <1>11 DEF TypeOK, Load, Preview, Refuse, Begin, PushLock, PushQueue,
     PushFails, Ask, Idle
<1>12. ASSUME MailSettles \/ MailRetried \/ UNCHANGED vars
       PROVE  client'[v] = client[v] /\ doc' = doc
  BY <1>12 DEF MailSettles, MailRetried, vars
<1> QED
  BY <1>1, <1>2, <1>3, <1>4, <1>5, <1>6, <1>7, <1>8, <1>9, <1>10, <1>11, <1>12
  DEF Next, Working

\* Where a step leaves the user who takes it.
LEMMA Phase ==
  ASSUME IInv, NEW u \in Users, [Next]_vars
  PROVE  /\ (Load(u) \/ Refuse(u) \/ Preview(u) \/ Update(u)
             \/ \E x \in Contents : Create(u, x))
              => client'[u].phase \in {"page", "preview"}
         /\ (Delete(u) \/ PushQueue(u) \/ PushFails(u))
              => client'[u].phase = "away"
         /\ Begin(u) => client'[u].phase = "tx"
         /\ (\E request \in Edits \union Transitions, x \in Drafts,
                delivery \in BOOLEAN : Ask(u, request, x, delivery))
              => client'[u].phase = "asked"
         /\ PushLock(u)
              => client'[u].phase = "locked" /\ client'[u].current = doc
<1>t. TypeOK
  BY DEF IInv
<1>1. ASSUME \/ Load(u) \/ Preview(u) \/ Refuse(u) \/ Update(u)
             \/ \E x \in Contents : Create(u, x)
      PROVE  client'[u].phase \in {"page", "preview"}
  <2>1. PICK phase \in {"page", "preview"},
                row \in {doc, doc', client[u].seen} :
          client' = [client EXCEPT ![u] =
                       [NoClient EXCEPT !.phase = phase, !.seen = row]]
    BY <1>1 DEF Load, Preview, Refuse, Update, Create
  <2>2. row \in Document
    <3>1. doc' \in Document
      BY TypesStay DEF TypeOK
    <3> QED BY <2>1, <3>1, Types
  <2> QED BY <1>t, <2>1, <2>2, Opens DEF Phases
<1>2. ASSUME Delete(u) \/ PushQueue(u) \/ PushFails(u)
      PROVE  client'[u].phase = "away"
  BY <1>t, <1>2, NobodyThere DEF Delete, PushQueue, PushFails, Idle, TypeOK
<1>c. client \in [Users -> Client] /\ client[u] \in Client
  BY <1>t DEF TypeOK
<1>3. ASSUME Begin(u) PROVE client'[u].phase = "tx"
  BY <1>c, <1>3 DEF Begin, Client
<1>4. ASSUME NEW request \in Edits \union Transitions,
             NEW x \in Drafts, NEW delivery \in BOOLEAN,
             Ask(u, request, x, delivery)
      PROVE  client'[u].phase = "asked"
  BY <1>c, <1>4 DEF Ask, Client
<1>5. ASSUME PushLock(u)
      PROVE  client'[u].phase = "locked" /\ client'[u].current = doc
  BY <1>c, <1>5 DEF PushLock, Client
<1> QED BY <1>1, <1>2, <1>3, <1>4, <1>5

\* And the others.
LEMMA OtherClients ==
  ASSUME TypeOK, NEW u \in Users, NEW v \in Users, u # v,
         \/ Load(u) \/ Preview(u) \/ Refuse(u) \/ Begin(u) \/ PushLock(u)
         \/ PushQueue(u) \/ PushFails(u) \/ Update(u) \/ Delete(u)
         \/ \E x \in Contents : Create(u, x)
         \/ \E request \in Edits \union Transitions, x \in Drafts,
               delivery \in BOOLEAN : Ask(u, request, x, delivery)
  PROVE  client'[v] = client[v]
BY DEF TypeOK, Load, Preview, Refuse, Begin, PushLock, PushQueue,
   PushFails, Ask, Update, Delete, Create, Idle

\* The steps that write the row, its revisions or its marker.
LEMMA Writers ==
  ASSUME [Next]_vars
  PROVE  /\ \/ \E u \in Users, x \in Contents : Create(u, x)
            \/ \E u \in Users : Update(u) \/ Delete(u)
            \/ UNCHANGED <<doc, revisions, marker, automatic>>
         /\ approved \subseteq approved'
<1>1. ASSUME NEW u \in Users,
             \/ Load(u) \/ Begin(u) \/ Refuse(u) \/ Preview(u)
             \/ PushLock(u) \/ PushQueue(u) \/ PushFails(u)
      PROVE  UNCHANGED <<doc, revisions, marker, automatic, approved>>
  BY <1>1 DEF Load, Begin, Refuse, Preview, PushLock, PushQueue, PushFails,
     mail
<1>2. ASSUME NEW u \in Users, NEW request \in Edits \union Transitions,
             NEW x \in Drafts, NEW delivery \in BOOLEAN,
             Ask(u, request, x, delivery)
      PROVE  /\ UNCHANGED <<doc, revisions, marker, automatic>>
             /\ approved \subseteq approved'
  BY <1>2 DEF Ask, mail
<1>3. CASE MailSettles \/ MailRetried \/ UNCHANGED vars
  BY <1>3 DEF MailSettles, MailRetried, vars
<1>4. ASSUME NEW u \in Users, NEW x \in Contents,
             Create(u, x) \/ Update(u) \/ Delete(u)
      PROVE  approved' = approved
  BY <1>4 DEF Create, Update, Delete
<1>5. ASSUME NEW u \in Users, Update(u) \/ Delete(u)
      PROVE  approved' = approved
  BY <1>5 DEF Update, Delete
<1> QED BY <1>1, <1>2, <1>3, <1>4, <1>5 DEF Next

LEMMA BeginningStays == IInv /\ [Next]_vars => Beginning'
<1> SUFFICES ASSUME IInv, [Next]_vars, (doc.status = "absent")'
    PROVE  (automatic = 0 /\ \A v \in Users : client[v].phase = "away")'
  BY DEF Beginning
<1>1. ASSUME NEW u \in Users, NEW x \in Contents, Create(u, x) PROVE FALSE
  BY <1>1 DEF Create, NoDocument
<1>2. ASSUME NEW u \in Users, Update(u) PROVE FALSE
  BY <1>2, UpdateAlone DEF Exists
<1>3. ASSUME NEW u \in Users, Delete(u) PROVE FALSE
  BY <1>3 DEF Delete, NoDocument
<1>4. doc' = doc
  BY <1>1, <1>2, <1>3, Writers
<1>5. automatic = 0 /\ \A v \in Users : client[v].phase = "away"
  BY <1>4 DEF IInv, Beginning
<1>6. ASSUME NEW u \in Users
      PROVE  ~(Load(u) \/ Begin(u) \/ Refuse(u) \/ Preview(u) \/ PushLock(u)
               \/ PushQueue(u) \/ PushFails(u)
               \/ \E request \in Edits \union Transitions, x \in Drafts,
                     delivery \in BOOLEAN : Ask(u, request, x, delivery))
  BY <1>4, <1>5, <1>6 DEF Load, Begin, Refuse, Preview, PushLock, PushQueue,
     PushFails, Ask, Public, Exists
<1>7. MailSettles \/ MailRetried \/ UNCHANGED vars
  BY <1>1, <1>2, <1>3, <1>6 DEF Next
<1> QED BY <1>5, <1>7 DEF MailSettles, MailRetried, vars

LEMMA RecordingStays == IInv /\ [Next]_vars => Recording'
<1> SUFFICES ASSUME IInv, [Next]_vars PROVE Recording'
  OBVIOUS
<1>1. ASSUME NEW u \in Users, NEW x \in Contents, Create(u, x)
      PROVE  Recording'
  <2>1. /\ doc' = [NoDocument EXCEPT !.status = "draft", !.version = 1,
                                     !.draft = x]
        /\ revisions' = [n \in {1} |-> x]
    BY <1>1 DEF Create
  <2>2. /\ doc'.status = "draft" /\ doc'.version = 1 /\ doc'.draft = x
    BY <2>1 DEF NoDocument
  <2>3. revisions' \in Seq(Contents) /\ Len(revisions') = 1
    <3>1. revisions' = <<x>>
      <4>1. {1} = 1..1
        OBVIOUS
      <4> QED BY <2>1, <4>1
    <3> QED BY <3>1
  <2> QED BY <2>2, <2>3 DEF Recording, Exists
<1>2. ASSUME NEW u \in Users, Update(u) PROVE Recording'
  <2>1. /\ Exists(doc) /\ Exists(doc') /\ doc'.version = doc.version + 1
        /\ doc'.draft \in Contents
        /\ revisions' = Append(revisions, doc'.draft)
    BY <1>2, UpdateAlone
  <2>2. revisions \in Seq(Contents) /\ Len(revisions) = doc.version
    BY <2>1 DEF IInv, Recording
  <2> QED BY <2>1, <2>2, Appended DEF Recording, Exists
<1>3. ASSUME NEW u \in Users, Delete(u) PROVE Recording'
  BY <1>3 DEF Delete, NoDocument, Recording, Exists
<1>4. CASE UNCHANGED <<doc, revisions>>
  BY <1>4 DEF IInv, Recording, Exists
<1> QED BY <1>1, <1>2, <1>3, <1>4, Writers

LEMMA AskingStays == IInv /\ [Next]_vars => Asking'
<1> SUFFICES ASSUME IInv, [Next]_vars, NEW v \in Users,
                    client'[v].phase \in {"asked", "tx"}
    PROVE  (/\ client[v].request \in Edits => client[v].data \in Contents
            /\ client[v].request = "publish" /\ v \in Editors
                 => client[v].seen.draft \in approved)'
  BY DEF Asking
<1>t. TypeOK
  BY DEF IInv
<1>1. ASSUME NEW request \in Edits \union Transitions,
             NEW x \in Drafts, NEW delivery \in BOOLEAN,
             Ask(v, request, x, delivery)
      PROVE  (/\ client[v].request \in Edits => client[v].data \in Contents
              /\ client[v].request = "publish" /\ v \in Editors
                   => client[v].seen.draft \in approved)'
  <2>1. /\ client'[v].request = request /\ client'[v].data = x
        /\ client'[v].seen = client[v].seen
    BY <1>t, <1>1 DEF Ask, TypeOK, Client
  <2>2. request \in Edits => x \in Contents
    <3>1. \A n \in DOMAIN revisions : revisions[n] \in Contents
      BY Types, ElementOfSeq, LenProperties
    <3> QED BY <1>1, <3>1 DEF Ask, Edits
  <2>3. request = "publish" /\ v \in Editors
          => client[v].seen.draft \in approved'
    BY <1>1 DEF Ask
  <2> QED BY <2>1, <2>2, <2>3
<1>2. ASSUME Begin(v)
      PROVE  /\ client'[v].request = client[v].request
             /\ client'[v].data = client[v].data
             /\ client'[v].seen = client[v].seen
             /\ client[v].phase = "asked"
  BY <1>t, <1>2 DEF Begin, TypeOK, Client
<1>3. approved \subseteq approved'
  BY Writers
<1>4. ASSUME \/ Load(v) \/ Preview(v) \/ Refuse(v) \/ Update(v) \/ Delete(v)
             \/ PushLock(v) \/ PushQueue(v) \/ PushFails(v)
             \/ \E x \in Contents : Create(v, x)
      PROVE  FALSE
  BY <1>4, Phase
<1>6. ASSUME client'[v] = client[v]
      PROVE  (/\ client[v].request \in Edits => client[v].data \in Contents
              /\ client[v].request = "publish" /\ v \in Editors
                   => client[v].seen.draft \in approved)'
  BY <1>3, <1>6 DEF IInv, Asking
<1>7. ASSUME NEW u \in Users, u # v,
             \/ Load(u) \/ Preview(u) \/ Refuse(u) \/ Begin(u) \/ PushLock(u)
             \/ PushQueue(u) \/ PushFails(u) \/ Update(u) \/ Delete(u)
             \/ \E x \in Contents : Create(u, x)
             \/ \E request \in Edits \union Transitions, x \in Drafts,
                   delivery \in BOOLEAN : Ask(u, request, x, delivery)
      PROVE  client'[v] = client[v]
  BY <1>t, <1>7, OtherClients
<1>8. CASE MailSettles \/ MailRetried \/ UNCHANGED vars
  <2>1. client'[v] = client[v]
    BY <1>8 DEF MailSettles, MailRetried, vars
  <2> QED BY <1>6, <2>1
<1>9. ASSUME Begin(v)
      PROVE  (/\ client[v].request \in Edits => client[v].data \in Contents
              /\ client[v].request = "publish" /\ v \in Editors
                   => client[v].seen.draft \in approved)'
  BY <1>2, <1>3, <1>9 DEF IInv, Asking
<1> QED BY <1>1, <1>4, <1>6, <1>7, <1>8, <1>9 DEF Next

LEMMA LockingStays == IInv /\ [Next]_vars => Locking'
<1> SUFFICES ASSUME IInv, [Next]_vars, NEW v \in Users
    PROVE  (/\ client[v].phase = "locked" <=> lock = v
            /\ lock = v => client[v].current = doc /\ Public(doc))'
  BY DEF Locking
<1>t. TypeOK
  BY DEF IInv
<1>l. \A u \in Users : /\ client[u].phase = "locked" <=> lock = u
                       /\ lock = u => client[u].current = doc /\ Public(doc)
  BY DEF IInv, Locking
<1>n. v # Nobody
  BY UsersAssumption
<1>1. ASSUME NEW u \in Users, NEW x \in Contents, Create(u, x)
      PROVE  client'[v].phase # "locked" /\ lock' # v
  <2>1. \A w \in Users : client[w].phase = "away"
    BY <1>1 DEF Create, IInv, Beginning
  <2>2. lock' = lock /\ lock # v
    BY <1>1, <1>l, <2>1 DEF Create
  <2> QED BY <1>t, <1>1, <2>1, <2>2, Phase, OtherClients
<1>2. ASSUME NEW u \in Users, Update(u) \/ Delete(u)
      PROVE  client'[v].phase # "locked" /\ lock' # v
  <2>1. lock = Nobody /\ lock' = lock
    BY <1>2 DEF Update, Delete, CanUpdate
  <2>2. client[v].phase # "locked"
    BY <1>l, <1>n, <2>1
  <2> QED BY <1>t, <1>2, <1>n, <2>1, <2>2, Phase, OtherClients
<1>3. ASSUME NEW u \in Users,
             \/ Load(u) \/ Preview(u) \/ Refuse(u) \/ Begin(u)
             \/ \E request \in Edits \union Transitions, x \in Drafts,
                   delivery \in BOOLEAN : Ask(u, request, x, delivery)
      PROVE  (/\ client[v].phase = "locked" <=> lock = v
              /\ lock = v => client[v].current = doc /\ Public(doc))'
  <2>1. lock' = lock /\ doc' = doc /\ client[u].phase # "locked"
    BY <1>3 DEF Load, Preview, Refuse, Begin, Ask
  <2>2. CASE v = u
    <3>1. client'[u].phase # "locked"
      BY <1>3, Phase
    <3> QED BY <1>l, <2>1, <2>2, <3>1
  <2>3. CASE v # u
    <3>1. client'[v] = client[v]
      BY <1>t, <1>3, <2>3, OtherClients
    <3> QED BY <1>l, <2>1, <3>1 DEF Public, Exists
  <2> QED BY <2>2, <2>3
<1>4. ASSUME NEW u \in Users, PushLock(u)
      PROVE  (/\ client[v].phase = "locked" <=> lock = v
              /\ lock = v => client[v].current = doc /\ Public(doc))'
  <2>1. lock = Nobody /\ lock' = u /\ doc' = doc /\ Public(doc)
    BY <1>4 DEF PushLock
  <2>2. CASE v = u
    BY <1>4, <2>1, <2>2, Phase DEF Public, Exists
  <2>3. CASE v # u
    <3>1. client'[v] = client[v] /\ client[v].phase # "locked"
      BY <1>t, <1>4, <1>l, <1>n, <2>1, <2>3, OtherClients
    <3> QED BY <2>1, <2>3, <3>1
  <2> QED BY <2>2, <2>3
<1>5. ASSUME NEW u \in Users, PushQueue(u) \/ PushFails(u)
      PROVE  (/\ client[v].phase = "locked" <=> lock = v
              /\ lock = v => client[v].current = doc /\ Public(doc))'
  <2>1. /\ doc' = doc /\ client'[u].phase = "away"
        /\ lock' = IF lock = u THEN Nobody ELSE lock
    BY <1>5, <1>l, Phase DEF PushQueue, PushFails
  <2>2. CASE v = u
    BY <1>n, <2>1, <2>2
  <2>3. CASE v # u
    <3>1. client'[v] = client[v]
      BY <1>t, <1>5, <2>3, OtherClients
    <3>2. lock' = v <=> lock = v
      BY <1>n, <2>1, <2>3
    <3> QED BY <1>l, <2>1, <3>1, <3>2 DEF Public, Exists
  <2> QED BY <2>2, <2>3
<1>6. CASE MailSettles \/ MailRetried \/ UNCHANGED vars
  <2>1. lock' = lock /\ doc' = doc /\ client' = client
    BY <1>6 DEF MailSettles, MailRetried, vars
  <2> QED BY <1>l, <2>1 DEF Public, Exists
<1> QED BY <1>1, <1>2, <1>3, <1>4, <1>5, <1>6 DEF Next

LEMMA ApprovedStays == IInv /\ [Next]_vars => PublishedWasApproved'
<1> SUFFICES ASSUME IInv, [Next]_vars, doc'.published # NoContent
    PROVE  doc'.published \in approved'
  BY DEF PublishedWasApproved
<1>1. doc.published # NoContent => doc.published \in approved'
  BY Writers DEF IInv, PublishedWasApproved
<1>2. ASSUME NEW u \in Users, Update(u) PROVE doc'.published \in approved'
  <2>1. /\ doc' = Updated(doc, doc, client[u].request, client[u].data)
        /\ client[u].seen = doc /\ client[u].phase = "tx"
        /\ Allowed(u, doc, client[u].request)
    BY <1>2, UpdateAlone
  <2>2. CASE client[u].request = "publish"
    <3>1. doc'.published = doc.draft
      BY <2>1, <2>2 DEF Updated
    <3>2. u \in Editors
      BY <2>1, <2>2 DEF Allowed, MayMove, Transitions
    <3> QED BY <2>1, <2>2, <3>1, <3>2, Writers DEF IInv, Asking
  <2>3. CASE client[u].request # "publish"
    <3>1. doc'.published \in {NoContent, doc.published}
      BY <2>1, <2>3 DEF Updated
    <3> QED BY <1>1, <3>1
  <2> QED BY <2>2, <2>3
<1>3. ASSUME NEW u \in Users, Delete(u) \/ \E x \in Contents : Create(u, x)
      PROVE  doc'.published = NoContent
  BY <1>3 DEF Delete, Create, NoDocument
<1> QED BY <1>1, <1>2, <1>3, Writers

\* What an update does to the public view.
LEMMA UpdateView ==
  ASSUME IInv, NEW u \in Users, Update(u)
  PROVE  /\ client[u].request = "publish"
              => Public(doc)' /\ doc'.published = doc.draft
         /\ client[u].request \notin Withdrawals /\ Public(doc) => Public(doc)'
         /\ doc'.published # doc.published
              => client[u].request \in {"publish", "unpublish"}
<1> DEFINE request == client[u].request
<1>1. /\ doc' = Updated(doc, doc, request, client[u].data)
      /\ Exists(doc) /\ Exists(doc') /\ Allowed(u, doc, request)
      /\ doc'.trashed <=> doc'.status = "archived"
      /\ request # "delete" /\ doc.draft \in Contents
  BY UpdateAlone DEF IInv, Recording
<1>2. ASSUME request = "publish"
      PROVE  Public(doc)' /\ doc'.published = doc.draft
  <2>1. doc'.status = "published" /\ doc'.published = doc.draft
    BY <1>1, <1>2 DEF Updated, NextStatus, Edits
  <2> QED BY <1>1, <2>1, ContentsAssumption DEF Public, Exists
<1>3. ASSUME request \notin Withdrawals, Public(doc) PROVE Public(doc)'
  <2>1. CASE request = "publish"
    BY <1>2, <2>1
  <2>2. CASE request \in {"save", "revert"}
    <3>1. doc'.status = doc.status /\ doc'.published = doc.published
      BY <1>1, <2>2 DEF Updated, Edits
    <3> QED BY <1>1, <1>3, <3>1 DEF Public, Exists
  <2>3. CASE request \in {"submit", "return"}
    <3>1. /\ doc'.status \in {"draft", "review"}
          /\ doc'.published = doc.published
      BY <1>1, <2>3 DEF Updated, NextStatus, Edits
    <3> QED BY <1>1, <1>3, <3>1 DEF Public, Exists
  <2>4. CASE request = "restore"
    BY <1>1, <1>3, <2>4 DEF Public, Allowed, MayMove, Transitions
  <2>5. request \in Edits \union Transitions
    BY Types
  <2> QED BY <1>1, <1>3, <2>1, <2>2, <2>3, <2>4, <2>5
       DEF Withdrawals, Edits, Transitions
<1>4. doc'.published # doc.published => request \in {"publish", "unpublish"}
  BY <1>1 DEF Updated
<1> QED BY <1>2, <1>3, <1>4

\* What a transition does to the mail about the post.
LEMMA UpdateNotice ==
  ASSUME IInv, NEW u \in Users, Update(u)
  PROVE  /\ client[u].request \in Withdrawals => notice'.status # "open"
         /\ \/ notice' = notice
            \/ client[u].request \in Withdrawals
            \/ /\ client[u].request = "publish"
               /\ notice' = Queued(notice, doc.draft)
         /\ \/ automatic' = automatic /\ (marker => marker')
            \/ ~marker /\ marker' /\ automatic' \in {automatic, automatic + 1}
<1> DEFINE request == client[u].request
<1>1. UpdateMail(doc, request, client[u].delivery) /\ request # "delete"
  BY UpdateAlone
<1>2. CASE request \in Withdrawals
  <2>1. notice' = Suppressed(notice) /\ automatic' = automatic
        /\ (marker => marker')
    BY <1>1, <1>2 DEF UpdateMail, mail, FirstPublication, Withdrawals
  <2>2. Suppressed(notice).status # "open"
    BY DEF IInv, TypeOK, Notice, Suppressed
  <2> QED BY <1>2, <2>1, <2>2
<1>3. CASE FirstPublication(doc, request)
  <2>1. request = "publish" /\ request \notin Withdrawals /\ ~marker
    BY <1>3 DEF FirstPublication, Withdrawals
  <2>2. marker' /\ (notice' = notice \/ notice' = Queued(notice, doc.draft))
    BY <1>1, <1>3, <2>1 DEF UpdateMail, mail
  <2>3. automatic' \in {automatic, automatic + 1}
    BY <1>1, <1>3, <2>1 DEF UpdateMail, mail, IInv, TypeOK, Mailing,
       AutomaticNoticeOnce
  <2> QED BY <2>1, <2>2, <2>3
<1>4. CASE request \notin Withdrawals /\ ~FirstPublication(doc, request)
  <2>1. UNCHANGED mail
    BY <1>1, <1>4 DEF UpdateMail
  <2> QED BY <1>4, <2>1 DEF mail
<1> QED BY <1>2, <1>3, <1>4

LEMMA MailingStays == IInv /\ [Next]_vars => Mailing'
<1> SUFFICES ASSUME IInv, [Next]_vars PROVE Mailing'
  OBVIOUS
<1>m. /\ automatic \in {0, 1}
      /\ Exists(doc) /\ automatic = 1 => marker
      /\ notice.status = "open" => Public(doc) \/ retried
      /\ notice \in Notice
  BY DEF IInv, Mailing, AutomaticNoticeOnce, OpenMailIsPublic, TypeOK
<1>1. ASSUME NEW u \in Users, NEW x \in Contents, Create(u, x) PROVE Mailing'
  <2>1. automatic' = 0 /\ notice' = notice /\ retried' = retried
    BY <1>1 DEF Create, mail, IInv, Beginning
  <2>2. ~Public(doc)
    BY <1>1 DEF Create, Public, Exists
  <2> QED BY <1>m, <2>1, <2>2
       DEF Mailing, AutomaticNoticeOnce, OpenMailIsPublic
<1>2. ASSUME NEW u \in Users, Update(u) PROVE Mailing'
  <2>1. automatic' \in {0, 1} /\ (automatic' = 1 => marker')
    BY <1>m, <1>2, UpdateAlone, UpdateNotice
  <2>2. notice'.status = "open" => Public(doc)' \/ retried'
    <3>1. retried' = retried
      BY <1>2 DEF Update
    <3> QED BY <1>m, <1>2, <3>1, UpdateView, UpdateNotice
  <2> QED BY <2>1, <2>2 DEF Mailing, AutomaticNoticeOnce, OpenMailIsPublic
<1>3. ASSUME NEW u \in Users, Delete(u) PROVE Mailing'
  <2>1. notice' = Suppressed(notice) /\ automatic' = automatic
    BY <1>3 DEF Delete, UpdateMail, FirstPublication, Withdrawals, mail
  <2>2. notice'.status # "open" /\ ~Exists(doc')
    BY <1>m, <1>3, <2>1
    DEF Suppressed, Notice, Delete, NoDocument, Exists
  <2> QED BY <1>m, <2>1, <2>2
       DEF Mailing, AutomaticNoticeOnce, OpenMailIsPublic, Exists
<1>4. ASSUME UNCHANGED <<doc, revisions, marker, automatic>>,
             notice'.status = "open" => Public(doc)' \/ retried'
      PROVE  Mailing'
  BY <1>m, <1>4 DEF Mailing, AutomaticNoticeOnce, OpenMailIsPublic, Exists
<1>5. ASSUME NEW u \in Users,
             \/ Load(u) \/ Begin(u) \/ Refuse(u) \/ Preview(u) \/ PushLock(u)
             \/ PushFails(u)
             \/ \E request \in Edits \union Transitions, x \in Drafts,
                   delivery \in BOOLEAN : Ask(u, request, x, delivery)
      PROVE  Mailing'
  <2>1. UNCHANGED <<doc, revisions, mail, retried>>
    BY <1>5 DEF Load, Begin, Refuse, Preview, PushLock, PushFails, Ask
  <2> QED BY <1>m, <1>4, <2>1 DEF mail, Public, Exists
<1>6. ASSUME NEW u \in Users, PushQueue(u) PROVE Mailing'
  <2>1. UNCHANGED <<doc, revisions, marker, automatic>>
    BY <1>6 DEF PushQueue
  <2>2. Public(doc)
    BY <1>6 DEF PushQueue, IInv, Locking
  <2> QED BY <1>4, <2>1, <2>2 DEF Public, Exists
<1>7. CASE MailSettles
  <2>1. /\ UNCHANGED <<doc, revisions, marker, automatic>>
        /\ notice'.status \in {"closed", "failed"}
    BY <1>m, <1>7 DEF MailSettles, Notice
  <2> QED BY <1>4, <2>1
<1>8. CASE MailRetried
  <2>1. UNCHANGED <<doc, revisions, marker, automatic>> /\ retried' = TRUE
    BY <1>8 DEF MailRetried
  <2> QED BY <1>4, <2>1
<1>9. CASE UNCHANGED vars
  <2>1. UNCHANGED <<doc, revisions, marker, automatic, notice, retried>>
    BY <1>9 DEF vars
  <2> QED BY <1>m, <1>4, <2>1 DEF Public, Exists
<1> QED BY <1>1, <1>2, <1>3, <1>5, <1>6, <1>7, <1>8, <1>9 DEF Next
-----------------------------------------------------------------------------
(* The theorems. *)

LEMMA InvAtFirst == Init => IInv
<1> SUFFICES ASSUME Init PROVE IInv
  OBVIOUS
<1>1. /\ doc.status = "absent"
      /\ doc.published = NoContent /\ doc.draft = NoContent
      /\ ~Exists(doc) /\ revisions = <<>> /\ automatic = 0
      /\ notice.status = "none" /\ lock = Nobody
  BY DEF Init, NoDocument, Exists
<1>2. \A u \in Users : client[u].phase = "away"
  BY DEF Init, NoClient
<1>3. TypeOK
  BY TypesAtFirst
<1>4. Copies /\ Beginning /\ Asking
  BY <1>1, <1>2 DEF Copies, Beginning, Asking
<1>5. Recording
  BY <1>1 DEF Recording
<1>6. Locking
  BY <1>1, <1>2, UsersAssumption DEF Locking
<1>7. PublishedWasApproved /\ Mailing
  BY <1>1 DEF PublishedWasApproved, Mailing, AutomaticNoticeOnce,
     OpenMailIsPublic
<1> QED BY <1>3, <1>4, <1>5, <1>6, <1>7 DEF IInv

LEMMA InvStays == IInv /\ [Next]_vars => IInv'
BY TypesStay, CopiesStay, BeginningStays, RecordingStays, AskingStays,
   LockingStays, ApprovedStays, MailingStays DEF IInv

\* The invariant holds in every reachable state.
THEOREM InductiveInvariant == Spec => []IInv
BY InvAtFirst, InvStays, PTL DEF Spec

\* Rows, pages, locks and mail keep their types, and a post is in the trash
\* exactly while deletedAt is set, for any team, contents and versions.
THEOREM TypeCorrect == Spec => []TypeOK
BY InductiveInvariant, PTL DEF IInv

\* The public snapshot is always a draft that was in front of an editor who
\* asked to publish it.
THEOREM PublicationWasApproved == Spec => []PublishedWasApproved
BY InductiveInvariant, PTL DEF IInv

\* However often a post is published, withdrawn and published again, there is
\* one automatic mailing.
THEOREM OneAutomaticMailing == Spec => []AutomaticNoticeOnce
BY InductiveInvariant, PTL DEF IInv, Mailing

\* Open mail is about a public post or was put back by an administrator.
THEOREM MailFollowsThePost == Spec => []OpenMailIsPublic
BY InductiveInvariant, PTL DEF IInv, Mailing

\* What a step does to the draft and to the public view.
LEMMA Shown ==
  ASSUME IInv, [Next]_vars, NEW u \in Users, doc.draft # NoContent,
         doc'.draft # doc.draft, client'[u] # client[u]
  PROVE  client[u].seen.draft = doc.draft
<1>t. TypeOK
  BY DEF IInv
<1>1. ASSUME NEW v \in Users, NEW x \in Contents, Create(v, x) PROVE FALSE
  BY <1>1 DEF Create, Exists, IInv, Recording
<1>2. ASSUME NEW v \in Users, Update(v) \/ Delete(v)
      PROVE  client[u].seen.draft = doc.draft
  <2>1. v = u
    BY <1>t, <1>2, OtherClients
  <2>2. CanUpdate(u)
    BY <1>2, <2>1 DEF Update, Delete
  <2> QED BY <2>2, AsIfAlone
<1> QED BY <1>1, <1>2, Writers

LEMMA EditorsView ==
  ASSUME IInv, [Next]_vars, Visible(doc)' # Visible(doc)
  PROVE  \E u \in Editors : client[u].phase = "tx" /\ client'[u].phase # "tx"
<1>1. ASSUME NEW v \in Users, NEW x \in Contents, Create(v, x) PROVE FALSE
  <2>1. ~Exists(doc) /\ doc'.published = NoContent
    BY <1>1 DEF Create, Exists, NoDocument
  <2> QED BY <2>1 DEF Visible, Public
<1>2. ASSUME NEW u \in Users, Update(u)
      PROVE  client[u].phase = "tx" /\ client'[u].phase # "tx" /\ u \in Editors
  <2> DEFINE request == client[u].request
  <2>1. /\ doc' = Updated(doc, doc, request, client[u].data)
        /\ Exists(doc) /\ Exists(doc') /\ Allowed(u, doc, request)
        /\ doc'.trashed <=> doc'.status = "archived"
        /\ request # "delete" /\ client[u].phase = "tx"
    BY <1>2, UpdateAlone
  <2>2. client'[u].phase # "tx"
    BY <1>2, Phase
  <2>3. ASSUME u \notin Editors PROVE Visible(doc)' = Visible(doc)
    <3>1. /\ request \in Edits \/ request \in {"submit", "trash", "restore"}
          /\ request \in {"trash", "restore"} => doc.published = NoContent
      BY <2>1, <2>3, Types DEF Allowed, MayMove, Transitions
    <3>2. doc'.published = doc.published
      BY <3>1, <2>1 DEF Updated, Edits
    <3>3. doc.published # NoContent
            => (doc'.status = "archived" <=> doc.status = "archived")
      <4>1. CASE request \in Edits
        BY <2>1, <4>1 DEF Updated
      <4>2. CASE request = "submit"
        BY <2>1, <4>2
        DEF Updated, NextStatus, Edits, Allowed, MayMove, Transitions
      <4> QED BY <3>1, <4>1, <4>2
    <3>4. doc.trashed <=> doc.status = "archived"
      BY DEF IInv, TypeOK
    <3>5. doc.published # NoContent => (Public(doc)' <=> Public(doc))
      BY <2>1, <3>2, <3>3, <3>4 DEF Public, Exists
    <3> QED BY <3>2, <3>5 DEF Visible, Public
  <2> QED BY <2>1, <2>2, <2>3
<1>3. ASSUME NEW u \in Users, Delete(u)
      PROVE  client[u].phase = "tx" /\ client'[u].phase # "tx" /\ u \in Editors
  <2>1. client[u].phase = "tx" /\ Allowed(u, doc, "delete")
    BY <1>3, AsIfAlone DEF Delete
  <2>2. u \in Admins
    BY <2>1 DEF Allowed, MayMove, Transitions
  <2>3. client'[u].phase = "away"
    BY <1>3, Phase
  <2> QED BY <2>1, <2>2, <2>3, UsersAssumption
<1>4. doc' # doc
  BY DEF Visible, Public, Exists
<1> QED BY <1>1, <1>2, <1>3, <1>4, Writers

\* The steps that write the notice, beside those that write the row.
LEMMA NoticeWriters ==
  ASSUME [Next]_vars, doc' = doc, notice' # notice
  PROVE  \/ \E u \in Users : Update(u) \/ Delete(u) \/ PushQueue(u)
         \/ MailSettles \/ MailRetried
<1>1. ASSUME NEW u \in Users,
             \/ Load(u) \/ Begin(u) \/ Refuse(u) \/ Preview(u) \/ PushLock(u)
             \/ PushFails(u) \/ \E x \in Contents : Create(u, x)
             \/ \E request \in Edits \union Transitions, x \in Drafts,
                   delivery \in BOOLEAN : Ask(u, request, x, delivery)
      PROVE  FALSE
  BY <1>1 DEF Load, Begin, Refuse, Preview, PushLock, PushFails, Ask, Create,
     mail
<1>2. CASE UNCHANGED vars
  BY <1>2 DEF vars
<1> QED BY <1>1, <1>2 DEF Next

LEMMA QueuedView ==
  ASSUME IInv, [Next]_vars, notice.status = "none", notice'.status = "open"
  PROVE  Public(doc)' /\ notice'.content = doc'.published
<1>n. notice \in Notice /\ notice' # notice
  BY DEF IInv, TypeOK
<1>1. ASSUME NEW v \in Users, NEW x \in Contents, Create(v, x) PROVE FALSE
  BY <1>n, <1>1 DEF Create, mail
<1>2. ASSUME NEW u \in Users, Update(u)
      PROVE  Public(doc)' /\ notice'.content = doc'.published
  <2>1. client[u].request = "publish" /\ notice' = Queued(notice, doc.draft)
    BY <1>n, <1>2, UpdateNotice
  <2>2. Public(doc)' /\ doc'.published = doc.draft
    BY <1>2, <2>1, UpdateView
  <2> QED BY <2>1, <2>2 DEF Queued
<1>3. ASSUME NEW u \in Users, Delete(u) PROVE FALSE
  BY <1>n, <1>3
  DEF Delete, UpdateMail, FirstPublication, Withdrawals, mail, Suppressed
<1>4. ASSUME NEW u \in Users, PushQueue(u)
      PROVE  Public(doc)' /\ notice'.content = doc'.published
  <2>1. /\ doc' = doc /\ Public(doc) /\ client[u].current = doc
        /\ notice' = Queued(notice, client[u].current.published)
    BY <1>4 DEF PushQueue, IInv, Locking
  <2> QED BY <2>1 DEF Queued, Public, Exists
<1>5. ASSUME MailSettles \/ MailRetried PROVE FALSE
  BY <1>5 DEF MailSettles, MailRetried
<1> QED BY <1>n, <1>1, <1>2, <1>3, <1>4, <1>5, Writers, NoticeWriters

LEMMA WithdrawalView ==
  ASSUME IInv, [Next]_vars, Public(doc), ~Public(doc)'
  PROVE  notice'.status # "open"
<1>1. ASSUME NEW v \in Users, NEW x \in Contents, Create(v, x) PROVE FALSE
  BY <1>1 DEF Create, Public, Exists
<1>2. ASSUME NEW u \in Users, Update(u) PROVE notice'.status # "open"
  BY <1>2, UpdateView, UpdateNotice
<1>3. ASSUME NEW u \in Users, Delete(u) PROVE notice'.status # "open"
  <2>1. notice' = Suppressed(notice) /\ notice \in Notice
    BY <1>3 DEF Delete, UpdateMail, FirstPublication, Withdrawals, mail, IInv,
       TypeOK
  <2> QED BY <2>1 DEF Suppressed, Notice
<1>4. doc' # doc
  BY DEF Public, Exists
<1> QED BY <1>1, <1>2, <1>3, <1>4, Writers

\* Nobody overwrites a draft he was not shown.
THEOREM NoLostUpdate == Spec => NothingUnseenIsOverwritten
<1>1. IInv /\ [Next]_vars
        => [\A u \in Users :
              doc.draft # NoContent /\ doc'.draft # doc.draft
                /\ client'[u] # client[u]
              => client[u].seen.draft = doc.draft]_vars
  BY Shown
<1> QED BY <1>1, InductiveInvariant, PTL DEF Spec, NothingUnseenIsOverwritten

\* What visitors see changes only by the transaction of an editor.
THEOREM EditorsDecide == Spec => OnlyEditorsChangeThePublicView
<1>1. IInv /\ [Next]_vars
        => [Visible(doc)' # Visible(doc) =>
              \E u \in Editors : client[u].phase = "tx"
                                 /\ client'[u].phase # "tx"]_vars
  BY EditorsView
<1> QED BY <1>1, InductiveInvariant, PTL
     DEF Spec, OnlyEditorsChangeThePublicView

\* Mail that is queued carries what visitors read at that moment.
THEOREM MailCarriesThePost == Spec => QueuedIsPublished
<1>1. IInv /\ [Next]_vars
        => [notice.status = "none" /\ notice'.status = "open" =>
              Public(doc)' /\ notice'.content = doc'.published]_vars
  BY QueuedView
<1> QED BY <1>1, InductiveInvariant, PTL DEF Spec, QueuedIsPublished

\* A withdrawal closes the open mail in the same step.
THEOREM WithdrawalClosesMail == Spec => WithdrawalReachesMail
<1>1. IInv /\ [Next]_vars
        => [Public(doc) /\ ~Public(doc)' => notice'.status # "open"]_vars
  BY WithdrawalView
<1> QED BY <1>1, InductiveInvariant, PTL DEF Spec, WithdrawalReachesMail

\* Every update is a step of the workflow.
LEMMA UpdateIsAStep ==
  ASSUME IInv, NEW u \in Users, Update(u)
  PROVE  Workflow!WorkflowNext
<1> DEFINE request == client[u].request
           x == client[u].data
<1>1. /\ doc' = Updated(doc, doc, request, x)
      /\ Exists(doc) /\ Allowed(u, doc, request) /\ request # "delete"
      /\ doc'.draft \in Contents
      /\ doc'.draft = IF request \in Edits THEN x ELSE doc.draft
      /\ Workflow!Recorded
  BY UpdateAlone DEF Workflow!Recorded
<1>2. doc.status \in {"draft", "review", "published", "archived"}
  BY <1>1, Types DEF Exists, Document, Statuses
<1>3. CASE request \in Edits
  <2>1. /\ doc'.status = doc.status /\ doc'.published = doc.published
        /\ doc'.draft = x /\ x \in Contents /\ doc.status # "archived"
    BY <1>1, <1>3 DEF Updated, Edits, Allowed, MayEdit
  <2>2. Workflow!Edit(x)
    BY <1>1, <1>2, <2>1 DEF Workflow!Edit
  <2> QED BY <2>1, <2>2 DEF Workflow!WorkflowNext
<1>4. CASE request \in {"submit", "return", "trash", "restore"}
  <2>1. /\ doc'.published = doc.published /\ doc'.draft = doc.draft
        /\ doc'.status = NextStatus(doc, request)
    BY <1>1, <1>4 DEF Updated, Edits
  <2>2. MayMove(u, doc, request)
    BY <1>1, <1>4 DEF Allowed, Transitions
  <2>3. CASE request = "submit"
    <3>1. Workflow!Move({"draft", "published"}, "review")
      BY <1>1, <2>1, <2>2, <2>3 DEF MayMove, NextStatus, Workflow!Move
    <3> QED BY <3>1 DEF Workflow!WorkflowNext
  <2>4. CASE request = "return"
    <3>1. Workflow!Move({"review"}, "draft")
      BY <1>1, <2>1, <2>2, <2>4 DEF MayMove, NextStatus, Workflow!Move
    <3> QED BY <3>1 DEF Workflow!WorkflowNext
  <2>5. CASE request = "trash"
    <3>1. Workflow!Move({"draft", "review", "published"}, "archived")
      BY <1>1, <1>2, <2>1, <2>2, <2>5 DEF MayMove, NextStatus, Workflow!Move
    <3> QED BY <3>1 DEF Workflow!WorkflowNext
  <2>6. CASE request = "restore" /\ doc.published # NoContent
    <3>1. Workflow!Move({"archived"}, "published")
      BY <1>1, <2>1, <2>2, <2>6 DEF MayMove, NextStatus, Workflow!Move
    <3> QED BY <2>6, <3>1 DEF Workflow!WorkflowNext
  <2>7. CASE request = "restore" /\ doc.published = NoContent
    <3>1. Workflow!Move({"archived"}, "draft")
      BY <1>1, <2>1, <2>2, <2>7 DEF MayMove, NextStatus, Workflow!Move
    <3> QED BY <2>7, <3>1 DEF Workflow!WorkflowNext
  <2> QED BY <1>4, <2>3, <2>4, <2>5, <2>6, <2>7
<1>5. CASE request = "publish"
  <2>1. Workflow!Publish
    BY <1>1, <1>5 DEF Updated, Edits, NextStatus, Allowed, MayMove,
       Transitions, Workflow!Publish
  <2> QED BY <2>1 DEF Workflow!WorkflowNext
<1>6. CASE request = "unpublish"
  <2>1. Workflow!Unpublish
    BY <1>1, <1>2, <1>6 DEF Updated, Edits, NextStatus, Allowed, MayMove,
       Transitions, Workflow!Unpublish
  <2> QED BY <2>1 DEF Workflow!WorkflowNext
<1>7. request \in Edits \union Transitions
  BY Types
<1> QED BY <1>1, <1>3, <1>4, <1>5, <1>6, <1>7 DEF Transitions

LEMMA StepIsAStep ==
  ASSUME IInv, [Next]_vars
  PROVE  [Workflow!WorkflowNext]_(Workflow!workflowVars)
<1>1. ASSUME NEW u \in Users, NEW x \in Contents, Create(u, x)
      PROVE  Workflow!WorkflowNext
  <2>1. /\ doc' = [NoDocument EXCEPT !.status = "draft", !.version = 1,
                                     !.draft = x]
        /\ revisions' = [n \in {1} |-> x] /\ doc.status = "absent"
    BY <1>1 DEF Create
  <2>2. revisions = <<>> /\ doc.published = NoContent
    BY <2>1 DEF IInv, Recording, Exists
  <2>3. revisions' = Append(revisions, x)
    <3>1. {1} = 1..1
      OBVIOUS
    <3> QED BY <2>1, <2>2, <3>1
  <2>4. Workflow!Create(x)
    BY <2>1, <2>2, <2>3
    DEF NoDocument, Workflow!Create, Workflow!Recorded
  <2> QED BY <2>4 DEF Workflow!WorkflowNext
<1>2. ASSUME NEW u \in Users, Delete(u) PROVE Workflow!WorkflowNext
  <2>1. Exists(doc)
    BY <1>2 DEF Delete, CanUpdate, SameVersion
  <2>2. Workflow!Delete
    BY <1>2, <2>1 DEF Delete, NoDocument, Exists, Workflow!Delete
  <2> QED BY <2>2 DEF Workflow!WorkflowNext
<1>3. CASE UNCHANGED <<doc, revisions>>
  BY <1>3 DEF Workflow!workflowVars
<1> QED BY <1>1, <1>2, <1>3, UpdateIsAStep, Writers

\* Any team working on one post, with unlocked reads, stale pages and failing
\* transactions, implements the editorial workflow of one document.
THEOREM TeamFollowsTheWorkflow == Spec => ImplementsWorkflow
<1>1. Init => Workflow!WorkflowInit
  BY DEF Init, NoDocument, Workflow!WorkflowInit
<1>2. IInv /\ [Next]_vars => [Workflow!WorkflowNext]_(Workflow!workflowVars)
  BY StepIsAStep
<1> QED BY <1>1, <1>2, InductiveInvariant, PTL
     DEF Spec, ImplementsWorkflow, Workflow!WorkflowSpec
=============================================================================
