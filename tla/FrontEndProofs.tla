---------------------------- MODULE FrontEndProofs ----------------------------
(***************************************************************************)
(* The safety of the administration's pages, each page from an invariant   *)
(* of its own: a step of one leaves the variables of the others alone.     *)
(***************************************************************************)
EXTENDS FrontEnd, FiniteSetTheorems, SequenceTheorems, TLAPS

(***************************************************************************)
(* The managers.                                                           *)
(***************************************************************************)

\* What a call is about.
Carried ==
  request # None =>
    /\ request.op \in {"save", "form"} => request.text \in Inputs
    /\ request.op \in {"remove", "reset"} => request.item \in Items
    /\ (request.op \in {"save", "upload"} /\ request.at = "done") =>
         request.item \in Items /\ request.text \in Inputs

Answered(ops) == request # None /\ request.op \in ops /\ request.at = "done"

\* The list lacks nothing but what the answer to the call will change in it.
Agreed ==
  ~unsure =>
    stored = IF Answered({"save", "upload"})
               THEN [shown EXCEPT ![request.item] = request.text]
             ELSE IF Answered({"remove"}) THEN [shown EXCEPT ![request.item] = None]
             ELSE shown

\* A call carries what was typed, unless that was typed while one ran.
Typed ==
  (typed # None /\ ~overlap) =>
    /\ upload # None => upload.text = typed
    /\ (request # None /\ (request.op = "save" \/ (request.op = "form" /\ page = "settings")))
         => request.text = typed

ManagerInv ==
  /\ Managers!TypeOK /\ Carried /\ Agreed /\ Typed /\ Managers!InputIsKept
  /\ upload # None => page = "members"

LEMMA ManagersBegin == Managers!Init => ManagerInv
BY DEF Managers!Init, ManagerInv, Managers!TypeOK, Carried, Agreed, Answered, Typed,
       Managers!InputIsKept

LEMMA ManagersRest ==
  ASSUME ManagerInv, UNCHANGED managerVars PROVE ManagerInv'
<1>1. /\ page' = page /\ stored' = stored /\ shown' = shown /\ editing' = editing
      /\ removing' = removing /\ form' = form /\ request' = request /\ upload' = upload
      /\ error' = error /\ typed' = typed /\ overlap' = overlap /\ unsure' = unsure
  BY DEF managerVars
<1> QED
  BY <1>1 DEF ManagerInv, Managers!TypeOK, Carried, Agreed, Answered, Typed,
              Managers!InputIsKept

\* What no call is about leaves the lists alone.
LEMMA ListsStay ==
  ASSUME ManagerInv, UNCHANGED <<stored, shown, request, unsure>>
  PROVE  Carried' /\ Agreed'
BY DEF ManagerInv, Carried, Agreed, Answered

\* What does not touch the forms leaves what was typed in them.
LEMMA FormsStay ==
  ASSUME ManagerInv, UNCHANGED <<page, editing, form, typed, overlap>>
  PROVE  Managers!InputIsKept'
BY DEF ManagerInv, Managers!InputIsKept

LEMMA UserKeepsManagers ==
  ASSUME ManagerInv,
         \/ \E i \in Items \union {None}, t \in Inputs : Managers!OpenForm(i, t)
         \/ \E i \in Items : Managers!OpenRemoval(i)
         \/ Managers!CloseDialog
         \/ \E t \in Inputs : page # "settings" /\ Managers!Type(t)
         \/ \E t \in Inputs : Managers!TypeInSettings(t) \/ Managers!TypeIntro(t)
  PROVE  ManagerInv'
<1> USE DEF ManagerInv
<1>1. ASSUME NEW i \in Items \union {None}, NEW t \in Inputs, Managers!OpenForm(i, t)
      PROVE  ManagerInv'
  <2>1. Managers!TypeOK'
    BY <1>1 DEF Managers!OpenForm, Managers!TypeOK, Managers!Entry, Managers!Running,
                Managers!Busy
  <2> QED
    BY <1>1, <2>1, ListsStay DEF Managers!OpenForm, Typed, Managers!InputIsKept
<1>2. ASSUME NEW i \in Items, Managers!OpenRemoval(i) PROVE ManagerInv'
  BY <1>2, ListsStay, FormsStay DEF Managers!OpenRemoval, Managers!TypeOK, Typed
<1>3. CASE Managers!CloseDialog
  BY <1>3, ListsStay DEF Managers!CloseDialog, Managers!TypeOK, Typed, Managers!InputIsKept
<1>4. ASSUME NEW t \in Inputs, page # "settings", Managers!Type(t) PROVE ManagerInv'
  <2>1. /\ Managers!TypeOK' /\ editing' # None /\ editing'.text = t
    BY <1>4, NoneAssumption DEF Managers!Type, Managers!TypeOK, Managers!Entry,
       Managers!Running, Managers!Busy
  <2> QED
    BY <1>4, <2>1, ListsStay DEF Managers!Type, Typed, Managers!InputIsKept,
       Managers!Running, Managers!Busy
<1>5. ASSUME NEW t \in Inputs, Managers!TypeInSettings(t) PROVE ManagerInv'
  <2>1. Managers!TypeOK'
    BY <1>5 DEF Managers!TypeInSettings, Managers!TypeOK, Managers!Running, Managers!Busy
  <2> QED
    BY <1>5, <2>1, ListsStay DEF Managers!TypeInSettings, Typed, Managers!InputIsKept,
       Managers!Running, Managers!Busy
<1>6. ASSUME NEW t \in Inputs, Managers!TypeIntro(t) PROVE ManagerInv'
  BY <1>6, ListsStay DEF Managers!TypeIntro, Managers!TypeOK, Typed, Managers!InputIsKept
<1> QED
  BY <1>1, <1>2, <1>3, <1>4, <1>5, <1>6

LEMMA CallsKeepManagers ==
  ASSUME ManagerInv,
         \/ \E op \in {"save"} : /\ editing # None /\ page # "settings"
                                 /\ Managers!Send(op, editing.item, editing.text, {})
         \/ \E op \in {"remove", "reset"} :
              removing # None /\ Managers!Send(op, removing, None, {})
         \/ Managers!Send("form", None, form, {})
         \/ \E files \in SUBSET Items : Managers!Send("upload", None, None, files),
         error' \in BOOLEAN
  PROVE  ManagerInv'
<1> PICK op \in {"save", "remove", "reset", "form", "upload"},
         i \in Items \union {None}, t \in Inputs \union {None}, files \in SUBSET Items :
         /\ Managers!Send(op, i, t, files)
         /\ op \in {"save", "form"} => t \in Inputs
         /\ op \in {"remove", "reset"} => i \in Items
         /\ op = "save" => page # "settings" /\ editing # None /\ t = editing.text
         /\ op = "form" => t = form
  BY DEF ManagerInv, Managers!TypeOK, Managers!Entry
<1>1. /\ request' = [op |-> op, item |-> i, text |-> t, files |-> files, at |-> "sent"]
      /\ request = None
      /\ UNCHANGED <<page, stored, shown, editing, removing, form, upload, typed, overlap,
                     unsure>>
  BY DEF Managers!Send, Managers!Busy
<1>2. Managers!TypeOK'
  BY <1>1 DEF ManagerInv, Managers!TypeOK, Managers!Request
<1> QED
  BY <1>1, <1>2, FormsStay DEF ManagerInv, Carried, Agreed, Answered, Typed,
     Managers!InputIsKept

LEMMA ServerKeepsManagers ==
  ASSUME ManagerInv, Managers!Serve PROVE ManagerInv'
<1> USE DEF ManagerInv
<1>1. /\ request # None /\ request \in Managers!Request /\ request.at = "sent"
      /\ UNCHANGED <<page, shown, editing, removing, form, upload, error, typed, overlap,
                     unsure>>
  BY DEF Managers!Serve, Managers!ServeSave, Managers!ServeRemoval, Managers!ServeUpload,
         Managers!ServeOther, Managers!Refuse, Managers!Busy, Managers!TypeOK
<1>2. Managers!InputIsKept'
  BY <1>1, FormsStay
<1>3. CASE Managers!ServeSave
  <2> PICK i \in Items : /\ stored' = [stored EXCEPT ![i] = request.text]
                         /\ request' = [request EXCEPT !.at = "done", !.item = i]
    BY <1>3 DEF Managers!ServeSave
  <2>1. /\ request' \in Managers!Request /\ request' # None
        /\ request'.op = "save" /\ request'.at = "done" /\ request'.item = i
        /\ request'.text = request.text /\ request.text \in Inputs /\ request.op = "save"
    BY <1>1, <1>3, NoneAssumption DEF Managers!ServeSave, Carried, Managers!Request
  <2>2. Managers!TypeOK'
    BY <1>1, <2>1 DEF Managers!TypeOK
  <2> QED
    BY <1>1, <1>2, <2>1, <2>2 DEF Carried, Agreed, Answered, Typed
<1>4. CASE Managers!ServeRemoval
  <2>1. /\ request' \in Managers!Request /\ request' # None
        /\ request'.op = "remove" /\ request'.at = "done" /\ request'.item = request.item
        /\ request.item \in Items /\ stored' = [stored EXCEPT ![request.item] = None]
    BY <1>1, <1>4, NoneAssumption DEF Managers!ServeRemoval, Managers!Handled, Carried,
       Managers!Request
  <2>2. Managers!TypeOK'
    BY <1>1, <2>1 DEF Managers!TypeOK
  <2> QED
    BY <1>1, <1>2, <1>4, <2>1, <2>2 DEF Managers!ServeRemoval, Carried, Agreed, Answered, Typed
<1>5. CASE Managers!ServeUpload
  <2> PICK i \in request.files, t \in Inputs :
        /\ stored' = [stored EXCEPT ![i] = t]
        /\ request' = [request EXCEPT !.at = "done", !.item = i, !.text = t,
                                      !.files = request.files \ {i}]
    BY <1>5 DEF Managers!ServeUpload
  <2>1. /\ request' \in Managers!Request /\ request' # None
        /\ request'.op = "upload" /\ request'.at = "done" /\ request'.item = i
        /\ request'.text = t /\ i \in Items
    <3>1. request.op = "upload" /\ request.files \subseteq Items /\ i \in Items
      BY <1>1, <1>5 DEF Managers!ServeUpload, Managers!Request
    <3>2. request' = [op |-> "upload", item |-> i, text |-> t,
                      files |-> request.files \ {i}, at |-> "done"]
      BY <1>1, <3>1 DEF Managers!Request
    <3>3. request' \in Managers!Request
      BY <3>1, <3>2 DEF Managers!Request
    <3> QED
      BY <3>1, <3>2, <3>3, NoneAssumption
  <2>2. Managers!TypeOK'
    BY <1>1, <2>1 DEF Managers!TypeOK
  <2> QED
    BY <1>1, <1>2, <1>5, <2>1, <2>2 DEF Managers!ServeUpload, Carried, Agreed, Answered, Typed
<1>6. ASSUME NEW at \in {"done", "refused"}, Managers!Handled(at), UNCHANGED stored,
             at = "done" => request.op \in {"form", "reset"}
      PROVE  ManagerInv'
  <2>1. /\ request' \in Managers!Request /\ request'.op = request.op /\ request'.at = at
        /\ request'.item = request.item /\ request'.text = request.text
    BY <1>1, <1>6 DEF Managers!Handled, Managers!Request
  <2>2. Managers!TypeOK'
    BY <1>1, <1>6, <2>1 DEF Managers!TypeOK
  <2> QED
    BY <1>1, <1>2, <1>6, <2>1, <2>2 DEF Carried, Agreed, Answered, Typed
<1> QED
  BY <1>3, <1>4, <1>5, <1>6 DEF Managers!Serve, Managers!ServeOther, Managers!Refuse

\* The answer to a save: the list gets what the answer names.
LEMMA AnswerCompletesList ==
  ASSUME ManagerInv, Answered({"save", "upload"}), Managers!PutEntry, UNCHANGED <<stored, unsure>>,
         request' = None \/ request'.at = "sent"
  PROVE  Agreed' /\ shown' \in [Items -> Inputs \union {None}]
BY DEF ManagerInv, Managers!TypeOK, Answered, Managers!PutEntry, Agreed, Carried

LEMMA AnswersKeepManagers ==
  ASSUME ManagerInv,
         \/ page # "settings" /\ Answered({"save"}) /\ Managers!CloseForm
         \/ Answered({"remove"}) /\ Managers!DropEntry /\ Managers!CloseRemoval
         \/ Answered({"reset"}) /\ Managers!CloseRemoval /\ UNCHANGED shown
         \/ Managers!IntroSaved \/ Managers!SettingsSaved \/ Managers!MediaUploaded
         \/ Managers!ShowError \/ Managers!LoseAnswer
         \/ Managers!AvatarUploaded \/ Managers!AvatarFailed
  PROVE  ManagerInv'
<1> USE DEF ManagerInv
<1>1. CASE page # "settings" /\ Answered({"save"}) /\ Managers!CloseForm
  <2>1. Agreed' /\ shown' \in [Items -> Inputs \union {None}]
    BY <1>1, AnswerCompletesList DEF Managers!CloseForm, Answered
  <2>2. typed' \in Inputs \union {None} /\ ((typed # None /\ ~overlap) => typed' = None)
    BY <1>1 DEF Managers!CloseForm, Managers!Saved, Managers!TypeOK, Typed, Answered
  <2>3. Managers!TypeOK'
    BY <1>1, <2>1, <2>2 DEF Managers!CloseForm, Managers!TypeOK
  <2>4. typed' # None => overlap'
    BY <1>1, <2>2 DEF Managers!CloseForm, Managers!Saved
  <2> QED
    BY <1>1, <2>1, <2>3, <2>4 DEF Managers!CloseForm, Carried, Typed, Managers!InputIsKept
<1>2. CASE Answered({"remove"}) /\ Managers!DropEntry /\ Managers!CloseRemoval
  <2>1. shown' \in [Items -> Inputs \union {None}] /\ Agreed'
    BY <1>2 DEF Managers!DropEntry, Managers!CloseRemoval, Managers!TypeOK, Answered, Agreed,
       Carried
  <2> QED
    BY <1>2, <2>1, FormsStay DEF Managers!CloseRemoval, Managers!TypeOK, Carried, Typed
<1>3. CASE Answered({"reset"}) /\ Managers!CloseRemoval /\ UNCHANGED shown
  BY <1>3, FormsStay DEF Managers!CloseRemoval, Managers!TypeOK, Answered, Agreed, Carried, Typed
<1>4. CASE Managers!IntroSaved
  BY <1>4, FormsStay DEF Managers!IntroSaved, Managers!Done, Managers!Busy, Managers!TypeOK,
     Answered, Agreed, Carried, Typed
<1>5. CASE Managers!SettingsSaved
  <2>1. /\ request # None /\ request.op = "form" /\ request.at = "done" /\ page = "settings"
        /\ request.text \in Inputs
    BY <1>5 DEF Managers!SettingsSaved, Managers!Done, Managers!Busy, Carried
  <2>2. typed' \in Inputs \union {None} /\ (typed' # None => overlap')
    BY <1>5, <2>1 DEF Managers!SettingsSaved, Managers!Saved, Managers!TypeOK, Typed
  <2>3. Managers!TypeOK'
    BY <1>5, <2>1, <2>2 DEF Managers!SettingsSaved, Managers!TypeOK
  <2> QED
    BY <1>5, <2>1, <2>2, <2>3 DEF Managers!SettingsSaved, Answered, Agreed, Carried, Typed,
       Managers!InputIsKept
<1>6. CASE Managers!MediaUploaded
  <2>1. /\ request \in Managers!Request /\ request # None /\ request.op = "upload"
        /\ request.at = "done" /\ page = "media" /\ upload = None
        /\ UNCHANGED <<page, stored, editing, removing, form, upload, error, typed, overlap,
                       unsure>>
    BY <1>6 DEF Managers!MediaUploaded, Managers!Done, Managers!Busy, Managers!TypeOK
  <2>2. \/ request' = None
        \/ /\ request' \in Managers!Request /\ request'.at = "sent" /\ request'.op = "upload"
    BY <1>6, <2>1 DEF Managers!MediaUploaded, Managers!Request
  <2>3. Agreed' /\ shown' \in [Items -> Inputs \union {None}]
    BY <1>6, <2>1, <2>2, AnswerCompletesList DEF Managers!MediaUploaded, Answered
  <2>4. Managers!TypeOK'
    BY <2>1, <2>2, <2>3 DEF Managers!TypeOK
  <2> QED
    BY <2>1, <2>2, <2>3, <2>4, FormsStay DEF Carried, Typed
<1>7. CASE Managers!ShowError
  BY <1>7, FormsStay DEF Managers!ShowError, Managers!Busy, Managers!TypeOK, Answered, Agreed,
     Carried, Typed
<1>8. CASE Managers!LoseAnswer
  BY <1>8, FormsStay DEF Managers!LoseAnswer, Managers!Busy, Managers!TypeOK, Answered, Agreed,
     Carried, Typed
<1>9. CASE Managers!AvatarUploaded
  BY <1>9, ListsStay DEF Managers!AvatarUploaded, Managers!TypeOK, Typed, Managers!InputIsKept
<1>10. CASE Managers!AvatarFailed
  BY <1>10, ListsStay, FormsStay DEF Managers!AvatarFailed, Managers!TypeOK, Typed
<1> QED
  BY <1>1, <1>2, <1>3, <1>4, <1>5, <1>6, <1>7, <1>8, <1>9, <1>10

LEMMA ManagersKeep ==
  ASSUME ManagerInv, Managers!Next PROVE ManagerInv'
<1>1. CASE Managers!NewTaxonomy \/ Managers!NewMember \/ Managers!NewUser
  BY <1>1, UserKeepsManagers DEF Managers!NewTaxonomy, Managers!NewMember, Managers!NewUser
<1>2. CASE \E i \in Items :
             Managers!EditTaxonomy(i) \/ Managers!EditMember(i) \/ Managers!EditUser(i)
  <2> PICK i \in Items : shown[i] # None /\ Managers!OpenForm(i, shown[i])
    BY <1>2 DEF Managers!EditTaxonomy, Managers!EditMember, Managers!EditUser
  <2>1. shown[i] \in Inputs
    BY DEF ManagerInv, Managers!TypeOK
  <2> QED
    BY <2>1, UserKeepsManagers
<1>3. CASE \E i \in Items : \/ Managers!AskTaxonomy(i) \/ Managers!AskMember(i)
                            \/ Managers!AskMedia(i) \/ Managers!AskReset(i)
  BY <1>3, UserKeepsManagers DEF Managers!AskTaxonomy, Managers!AskMember, Managers!AskMedia,
     Managers!AskReset
<1>4. CASE \E t \in Inputs :
             Managers!TypeTaxonomy(t) \/ Managers!TypeMember(t) \/ Managers!TypeUser(t)
  BY <1>4, UserKeepsManagers DEF Managers!TypeTaxonomy, Managers!TypeMember, Managers!TypeUser
<1>5. CASE \/ Managers!CloseDialog
           \/ \E t \in Inputs : Managers!TypeInSettings(t) \/ Managers!TypeIntro(t)
  BY <1>5, UserKeepsManagers
<1>6. CASE \/ Managers!SaveTaxonomy \/ Managers!SaveMember \/ Managers!SaveUser
           \/ Managers!RemoveTaxonomy \/ Managers!RemoveMember \/ Managers!ResetPassword
           \/ Managers!RemoveMedia \/ Managers!SaveIntro \/ Managers!SubmitSettings
           \/ \E files \in SUBSET Items : Managers!UploadMedia(files)
  <2>1. error' \in BOOLEAN
    BY <1>6, Zenon DEF Managers!SaveTaxonomy, Managers!SaveMember, Managers!SaveUser,
       Managers!RemoveTaxonomy, Managers!RemoveMember, Managers!ResetPassword,
       Managers!RemoveMedia, Managers!SaveIntro, Managers!SubmitSettings,
       Managers!UploadMedia, ManagerInv, Managers!TypeOK
  <2> QED
    BY <1>6, <2>1, CallsKeepManagers DEF Managers!SaveTaxonomy, Managers!SaveMember,
       Managers!SaveUser, Managers!RemoveTaxonomy, Managers!RemoveMember,
       Managers!ResetPassword, Managers!RemoveMedia, Managers!SaveIntro,
       Managers!SubmitSettings, Managers!UploadMedia
<1>7. CASE Managers!UploadAvatar
  BY <1>7, ListsStay, FormsStay DEF Managers!UploadAvatar, ManagerInv, Managers!TypeOK, Typed,
     Managers!InputIsKept
<1>8. CASE Managers!Serve
  BY <1>8, ServerKeepsManagers
<1>9. CASE Managers!Answer
  BY <1>9, AnswersKeepManagers DEF Managers!Answer, Managers!TaxonomySaved,
     Managers!MemberSaved, Managers!UserSaved, Managers!TaxonomyRemoved,
     Managers!MemberRemoved, Managers!MediaRemoved, Managers!PasswordReset, Managers!Done,
     Managers!Busy, Answered
<1> QED
  BY <1>1, <1>2, <1>3, <1>4, <1>5, <1>6, <1>7, <1>8, <1>9 DEF Managers!Next

(***************************************************************************)
(* The document editor.                                                    *)
(***************************************************************************)

Versions(i) == Len(docs[i].history)

\* Documents have a version, and texts no newer than the last change of the form.
Stored ==
  /\ Len(docs) <= 2
  /\ \A i \in 1 .. Len(docs) :
       /\ Versions(i) \in 1 .. MaxVersion
       /\ \A n \in 1 .. Versions(i) : docs[i].history[n] <= serial

Dated ==
  /\ data <= serial /\ seen <= serial
  /\ saving # None => saving.text <= serial /\ saving.serial <= serial
  /\ restoring # None => restoring.text <= serial /\ restoring.serial <= serial

\* The page knows a version of a document that there is.
Known ==
  record # None => record.id \in 1 .. Len(docs) /\ record.version <= Versions(record.id)

\* A call is about the page's document, in a version it knows or knew.
About(c) == record # None /\ c.id = record.id /\ c.version <= record.version

\* It was served: the version the page knows has been followed by another.
Served(c) ==
  /\ c.version = record.version /\ c.version < Versions(c.id)
  /\ c.result # None => /\ c.result.id = c.id /\ c.result.version = c.version + 1

\* A call the server will refuse: another one, or somebody else, came first.
Stale(c) == c.at # "done" /\ c.id # 0 /\ c.version < Versions(c.id)

Saving ==
  saving # None =>
    LET c == saving IN
    /\ c.id = 0 => c.op = "save" /\ record = None
    /\ c.id # 0 => About(c)
    /\ c.at = "done" =>
         /\ c.id # 0 => Served(c)
         /\ c.id = 0 => c.result.version = 1 /\ c.result.id \in 1 .. Len(docs)
         /\ c.op # "delete" => c.result # None
         /\ c.op = "save" => docs[c.result.id].history[c.result.version] = c.text
         /\ c.op \notin {"save", "delete"} =>
              docs[c.id].history[c.result.version] = docs[c.id].history[c.version]

\* What a save carries is on the page, or the page will know that it changed.
Telling ==
  (saving # None /\ saving.op = "save") =>
    IF serial = saving.serial
      THEN excused \/ saving.text = data \/ Stale(saving)
      ELSE dirty \/ seen # data \/ Stale(saving)

Restoring ==
  restoring # None =>
    LET c == restoring IN
    /\ About(c)
    /\ c.at = "done" => /\ Served(c) /\ c.result # None
                        /\ docs[c.id].history[c.result.version] = c.text
                        /\ saving # None => saving.at # "done"

\* The only document, or none as long as its first save has no answer.
Only ==
  ~lostFirst =>
    IF record # None THEN Len(docs) = 1
    ELSE \/ Len(docs) = 0
         \/ Len(docs) = 1 /\ saving # None /\ saving.id = 0 /\ saving.at = "done"

EditorInv ==
  /\ Editor!TypeOK /\ Stored /\ Dated /\ Known /\ Saving /\ Telling /\ Restoring /\ Only
  /\ Editor!InputIsKept /\ Editor!CleanIsStored /\ Editor!ChangesAreWatched

LEMMA EditorBegins == Editor!Init => EditorInv
<1> SUFFICES ASSUME Editor!Init PROVE EditorInv
  OBVIOUS
<1> DEFINE d == [history |-> <<0>>, status |-> "draft", public |-> None]
<1>1. d \in Editor!Doc /\ d.history = <<0>> /\ d.status = "draft" /\ d.public = None
  BY BoundsAssumption DEF Editor!Doc, Editor!Texts
<1>2. docs \in {<<>>, <<d>>}
  BY DEF Editor!Init
<1> HIDE DEF d
<1>3. docs = <<>> \/ (Len(docs) = 1 /\ docs[1] = d)
  BY <1>2
<1>4. docs \in Seq(Editor!Doc) /\ Stored
  <2>1. CASE docs = <<>>
    BY <2>1 DEF Stored
  <2>2. CASE docs = <<d>>
    <3>1. docs \in Seq(Editor!Doc) /\ Len(docs) = 1 /\ docs[1].history = <<0>>
      BY <1>1, <2>2
    <3>2. \A i \in 1 .. Len(docs) : i = 1
      BY <3>1
    <3>3. serial = 0
      BY DEF Editor!Init
    <3>4. Versions(1) = 1 /\ docs[1].history[1] = 0
      BY <3>1 DEF Versions
    <3>5. ASSUME NEW i \in 1 .. Len(docs), NEW n \in 1 .. Versions(i)
          PROVE  Versions(i) \in 1 .. MaxVersion /\ docs[i].history[n] <= serial
      BY <3>2, <3>3, <3>4, BoundsAssumption
    <3>6. \A i \in 1 .. Len(docs) : Versions(i) \in 1 .. MaxVersion
      BY <3>2, <3>4, BoundsAssumption
    <3> QED
      BY <3>1, <3>5, <3>6 DEF Stored
  <2> QED
    BY <1>2, <2>1, <2>2
<1>5. record # None => /\ record \in Editor!Record /\ record.id = 1 /\ record.version = 1
                       /\ Len(docs) = 1
  BY <1>1, <1>3, BoundsAssumption DEF Editor!Init, Editor!RecordOf, Editor!Record
<1>6. record = None => docs = <<>>
  BY <1>1, <1>3, NoneAssumption, BoundsAssumption
     DEF Editor!Init, Editor!RecordOf, Editor!Record
<1>7. Editor!TypeOK
  <2>1. 0 \in Editor!Texts
    BY BoundsAssumption DEF Editor!Texts
  <2> QED
    BY <1>4, <1>5, <2>1, Zenon DEF Editor!Init, Editor!TypeOK
<1>8. Known /\ Only /\ Editor!CleanIsStored
  BY <1>1, <1>3, <1>5, <1>6
     DEF Known, Only, Versions, Editor!CleanIsStored, Editor!Init
<1> QED
  BY <1>4, <1>7, <1>8 DEF EditorInv, Dated, Saving, Telling, Restoring, Editor!Init,
     Editor!InputIsKept, Editor!ChangesAreWatched

LEMMA EditorRests == ASSUME EditorInv, UNCHANGED editorVars PROVE EditorInv'
<1>1. /\ docs' = docs /\ role' = role /\ record' = record /\ data' = data /\ dirty' = dirty
      /\ serial' = serial /\ busy' = busy /\ failed' = failed /\ confirm' = confirm
      /\ seen' = seen /\ timer' = timer /\ saving' = saving /\ restoring' = restoring
      /\ uploading' = uploading /\ wanted' = wanted /\ excused' = excused
      /\ lostFirst' = lostFirst
  BY DEF editorVars
<1>2. Editor!TypeOK'
  BY <1>1, Zenon DEF EditorInv, Editor!TypeOK
<1>3. /\ Stored' /\ Dated' /\ Known' /\ Saving' /\ Telling' /\ Restoring' /\ Only'
  BY <1>1 DEF EditorInv, Stored, Dated, Known, Saving, Telling, Restoring, Only, Versions,
              About, Served, Stale
<1>4. Editor!InputIsKept' /\ Editor!CleanIsStored' /\ Editor!ChangesAreWatched'
  BY <1>1 DEF EditorInv, Editor!InputIsKept, Editor!CleanIsStored, Editor!ChangesAreWatched,
     Editor!Rendered
<1> QED
  BY <1>2, <1>3, <1>4 DEF EditorInv

(* What the page does without a call: the text, the timer, the dialog.  *)

LEMMA PageStepKeeps ==
  ASSUME EditorInv, UNCHANGED <<docs, role, lostFirst, record, saving, restoring, busy>>,
         data' \in Editor!Texts, seen' \in Editor!Texts, serial' \in Editor!Texts,
         wanted' \in Editor!Texts, confirm' \in Editor!Confirmed \union {None},
         dirty' \in BOOLEAN, failed' \in BOOLEAN, timer' \in BOOLEAN, uploading' \in BOOLEAN,
         excused' \in BOOLEAN,
         serial <= serial', data' <= serial', seen' <= serial', Telling',
         Editor!InputIsKept', Editor!CleanIsStored', Editor!ChangesAreWatched'
  PROVE  EditorInv'
<1>1. Editor!TypeOK'
  BY Zenon DEF EditorInv, Editor!TypeOK
<1>2. /\ Len(docs) \in Nat /\ serial \in Nat /\ serial' \in Nat
      /\ \A i \in 1 .. Len(docs) : \A n \in 1 .. Versions(i) : docs[i].history[n] \in Nat
      /\ saving # None => saving.text \in Nat /\ saving.serial \in Nat
      /\ restoring # None => restoring.text \in Nat /\ restoring.serial \in Nat
  <2>1. Len(docs) \in Nat /\ serial \in Nat /\ serial' \in Nat
    BY BoundsAssumption DEF EditorInv, Editor!TypeOK, Editor!Texts
  <2>2. \A i \in 1 .. Len(docs) : docs[i].history \in Seq(Editor!Texts)
    <3>1. \A i \in 1 .. Len(docs) : docs[i] \in Editor!Doc
      BY DEF EditorInv, Editor!TypeOK
    <3> QED
      BY <3>1 DEF Editor!Doc
  <2>3. \A i \in 1 .. Len(docs) : \A n \in 1 .. Versions(i) : docs[i].history[n] \in Nat
    BY <2>2, BoundsAssumption DEF Editor!Texts, Versions
  <2>4. saving # None => saving.text \in Nat /\ saving.serial \in Nat
    BY BoundsAssumption DEF EditorInv, Editor!TypeOK, Editor!Texts, Editor!Call
  <2>5. restoring # None => restoring.text \in Nat /\ restoring.serial \in Nat
    BY BoundsAssumption DEF EditorInv, Editor!TypeOK, Editor!Texts, Editor!Restoration
  <2> QED
    BY <2>1, <2>3, <2>4, <2>5
<1>3. Stored' /\ Dated'
  BY <1>2 DEF EditorInv, Stored, Dated, Versions
<1>4. Known' /\ Saving' /\ Restoring' /\ Only'
  BY DEF EditorInv, Known, Saving, Restoring, Only, Versions, About, Served
<1> QED
  BY <1>1, <1>3, <1>4 DEF EditorInv

LEMMA TypingKeeps ==
  ASSUME EditorInv,
         \/ Editor!Update \/ Editor!CoverUpload \/ Editor!CoverUploaded
         \/ Editor!CoverFailed \/ Editor!Render
         \/ \E a \in Editor!Actions : Editor!AskConfirmation(a)
         \/ Editor!Cancel
  PROVE  EditorInv'
<1> USE DEF Editor!server, Editor!form, Editor!Rendered
<1>1. /\ serial \in Nat /\ data \in Nat /\ seen \in Nat /\ data <= serial /\ seen <= serial
      /\ saving # None => saving.serial \in Nat /\ saving.serial <= serial
  BY BoundsAssumption DEF EditorInv, Editor!TypeOK, Editor!Texts, Editor!Call, Dated
<1>2. /\ data \in Editor!Texts /\ seen \in Editor!Texts /\ serial \in Editor!Texts
      /\ wanted \in Editor!Texts /\ confirm \in Editor!Confirmed \union {None}
      /\ dirty \in BOOLEAN /\ failed \in BOOLEAN /\ timer \in BOOLEAN
      /\ uploading \in BOOLEAN /\ excused \in BOOLEAN
  BY Zenon DEF EditorInv, Editor!TypeOK
<1>3. serial < MaxSerial => serial + 1 \in Editor!Texts
  BY <1>1, BoundsAssumption DEF Editor!Texts
<1>4. Telling /\ Editor!InputIsKept /\ Editor!CleanIsStored /\ Editor!ChangesAreWatched
  BY DEF EditorInv
<1>5. CASE Editor!Update
  <2>1. Telling' /\ Editor!InputIsKept' /\ Editor!CleanIsStored' /\ Editor!ChangesAreWatched'
    BY <1>1, <1>5 DEF Editor!Update, Telling, Editor!InputIsKept, Editor!CleanIsStored,
       Editor!ChangesAreWatched
  <2>2. /\ dirty' \in BOOLEAN /\ failed' \in BOOLEAN /\ timer' \in BOOLEAN
        /\ uploading' \in BOOLEAN /\ excused' \in BOOLEAN
    BY <1>2, <1>5, Zenon DEF Editor!Update
  <2>3. /\ serial <= serial' /\ data' <= serial' /\ seen' <= serial'
        /\ data' \in Editor!Texts /\ seen' \in Editor!Texts /\ serial' \in Editor!Texts
        /\ wanted' \in Editor!Texts
    BY <1>1, <1>2, <1>3, <1>5 DEF Editor!Update
  <2> QED
    BY <1>2, <1>5, <2>1, <2>2, <2>3, PageStepKeeps DEF Editor!Update
<1>6. CASE Editor!CoverUploaded
  <2>1. Telling' /\ Editor!InputIsKept' /\ Editor!CleanIsStored' /\ Editor!ChangesAreWatched'
    BY <1>1, <1>6 DEF Editor!CoverUploaded, Telling, Editor!InputIsKept,
       Editor!CleanIsStored, Editor!ChangesAreWatched
  <2>2. /\ dirty' \in BOOLEAN /\ failed' \in BOOLEAN /\ timer' \in BOOLEAN
        /\ uploading' \in BOOLEAN /\ excused' \in BOOLEAN
    BY <1>2, <1>6, Zenon DEF Editor!CoverUploaded
  <2>3. /\ serial <= serial' /\ data' <= serial' /\ seen' <= serial'
        /\ data' \in Editor!Texts /\ seen' \in Editor!Texts /\ serial' \in Editor!Texts
        /\ wanted' \in Editor!Texts
    BY <1>1, <1>2, <1>3, <1>6 DEF Editor!CoverUploaded
  <2> QED
    BY <1>2, <1>6, <2>1, <2>2, <2>3, PageStepKeeps DEF Editor!CoverUploaded
<1>7. CASE Editor!Render
  <2>1. Telling' /\ Editor!InputIsKept' /\ Editor!CleanIsStored' /\ Editor!ChangesAreWatched'
    BY <1>1, <1>4, <1>7 DEF Editor!Render, Telling, Editor!InputIsKept, Stale, Versions,
       Editor!CleanIsStored, Editor!ChangesAreWatched
  <2> QED
    BY <1>1, <1>2, <1>7, <2>1, PageStepKeeps DEF Editor!Render
<1>8. ASSUME UNCHANGED <<docs, role, lostFirst, record, saving, restoring, busy, data, seen,
                         serial, wanted, dirty, timer, excused>>,
             confirm' \in Editor!Confirmed \union {None},
             failed' \in BOOLEAN, uploading' \in BOOLEAN,
             (uploading \/ failed) => (uploading' \/ failed')
      PROVE  EditorInv'
  <2>1. Telling' /\ Editor!InputIsKept' /\ Editor!CleanIsStored' /\ Editor!ChangesAreWatched'
    BY <1>4, <1>8 DEF Telling, Editor!InputIsKept, Stale, Versions,
       Editor!CleanIsStored, Editor!ChangesAreWatched
  <2> QED
    BY <1>1, <1>2, <1>8, <2>1, PageStepKeeps
<1>9. CASE Editor!CoverUpload \/ Editor!CoverFailed
  BY <1>2, <1>8, <1>9, Zenon DEF Editor!CoverUpload, Editor!CoverFailed
<1>10. CASE Editor!Cancel \/ \E a \in Editor!Actions : Editor!AskConfirmation(a)
  BY <1>2, <1>8, <1>10, Zenon DEF Editor!Cancel, Editor!AskConfirmation
<1> QED
  BY <1>5, <1>6, <1>7, <1>9, <1>10

(* The calls, on the page's side. *)

LEMMA EditorFields ==
  ASSUME EditorInv
  PROVE  /\ docs \in Seq(Editor!Doc) /\ Len(docs) \in Nat /\ MaxVersion \in Nat
         /\ \A i \in 1 .. Len(docs) : Versions(i) \in Nat
         /\ serial \in Nat /\ data \in Nat /\ seen \in Nat /\ data <= serial /\ seen <= serial
         /\ record # None => /\ record \in Editor!Record
                             /\ record.id \in 1 .. 2 /\ record.version \in 1 .. MaxVersion
                             /\ record.id \in 1 .. Len(docs)
                             /\ record.version <= Versions(record.id)
         /\ saving # None => /\ saving \in Editor!Call /\ saving.id \in 0 .. 2
                             /\ saving.version \in 0 .. MaxVersion
                             /\ saving.text \in Editor!Texts /\ saving.text <= serial
                             /\ saving.serial \in Nat /\ saving.serial <= serial
                             /\ saving.result \in Editor!Record \union {None}
                             /\ saving.next \in Editor!Actions \union {None}
         /\ restoring # None => /\ restoring \in Editor!Restoration
                                /\ restoring.id \in 1 .. 2
                                /\ restoring.version \in 1 .. MaxVersion
                                /\ restoring.text \in Editor!Texts /\ restoring.text <= serial
                                /\ restoring.serial \in Nat /\ restoring.serial <= serial
                                /\ restoring.result \in Editor!Record \union {None}
<1> USE DEF EditorInv, Editor!TypeOK
<1>1. /\ docs \in Seq(Editor!Doc) /\ Len(docs) \in Nat /\ MaxVersion \in Nat
      /\ \A i \in 1 .. Len(docs) : Versions(i) \in Nat
  BY BoundsAssumption DEF Stored
<1>2. serial \in Nat /\ data \in Nat /\ seen \in Nat /\ data <= serial /\ seen <= serial
  BY BoundsAssumption DEF Editor!Texts, Dated
<1>3. record # None => /\ record \in Editor!Record
                       /\ record.id \in 1 .. 2 /\ record.version \in 1 .. MaxVersion
                       /\ record.id \in 1 .. Len(docs)
                       /\ record.version <= Versions(record.id)
  BY DEF Editor!Record, Known
<1>4. saving # None => /\ saving \in Editor!Call /\ saving.id \in 0 .. 2
                       /\ saving.version \in 0 .. MaxVersion
                       /\ saving.text \in Editor!Texts /\ saving.text <= serial
                       /\ saving.serial \in Nat /\ saving.serial <= serial
                       /\ saving.result \in Editor!Record \union {None}
                       /\ saving.next \in Editor!Actions \union {None}
  BY BoundsAssumption DEF Editor!Call, Editor!Texts, Dated
<1>5. restoring # None => /\ restoring \in Editor!Restoration
                          /\ restoring.id \in 1 .. 2
                          /\ restoring.version \in 1 .. MaxVersion
                          /\ restoring.text \in Editor!Texts /\ restoring.text <= serial
                          /\ restoring.serial \in Nat /\ restoring.serial <= serial
                          /\ restoring.result \in Editor!Record \union {None}
  BY BoundsAssumption DEF Editor!Restoration, Editor!Texts, Dated
<1> QED
  BY <1>1, <1>2, <1>3, <1>4, <1>5

\* With the documents as they were and the call of a restoration too.
LEMMA RestoringStays ==
  ASSUME EditorInv, UNCHANGED <<docs, record, restoring>>,
         saving' # None => (saving'.at # "done" \/ saving' = saving)
  PROVE  Restoring' /\ Known'
BY DEF EditorInv, Restoring, Known, About, Served, Versions

LEMMA StartSaveKeeps ==
  ASSUME EditorInv, NEW next \in Editor!Actions \union {None}, saving = None,
         Editor!StartSave(next),
         UNCHANGED <<docs, role, lostFirst, data, seen, dirty, serial, wanted, record,
                     restoring, uploading>>,
         timer' \in BOOLEAN, excused' \in BOOLEAN,
         confirm' \in Editor!Confirmed \union {None},
         excused => excused', excused' \/ seen = data
  PROVE  EditorInv'
<1>1. saving' = [op |-> "save", id |-> Editor!RecordId, version |-> Editor!RecordVersion,
                 text |-> seen, serial |-> serial, next |-> next,
                 at |-> "sent", result |-> None]
  BY DEF Editor!StartSave
<1>2. /\ Editor!RecordId \in 0 .. 2 /\ Editor!RecordVersion \in 0 .. MaxVersion
      /\ Editor!RecordId = 0 <=> record = None
      /\ record # None => Editor!RecordId = record.id /\ Editor!RecordVersion = record.version
  BY EditorFields DEF Editor!RecordId, Editor!RecordVersion
<1>3. saving' \in Editor!Call /\ saving' # None
  BY <1>1, <1>2, NoneAssumption DEF Editor!Call, EditorInv, Editor!TypeOK
<1>4. busy' \in BOOLEAN /\ failed' \in BOOLEAN
  BY Zenon DEF Editor!StartSave
<1>5. Editor!TypeOK'
  BY <1>3, <1>4, Zenon DEF EditorInv, Editor!TypeOK
<1>6. Stored' /\ Dated'
  BY <1>1, EditorFields DEF EditorInv, Stored, Dated, Versions
<1>7. Saving' /\ Telling'
  BY <1>1, <1>2, EditorFields DEF Saving, Telling, About
<1>8. Restoring' /\ Known' /\ Only'
  BY <1>1, RestoringStays DEF EditorInv, Only
<1>9. Editor!InputIsKept' /\ Editor!CleanIsStored' /\ Editor!ChangesAreWatched'
  BY <1>3 DEF EditorInv, Editor!InputIsKept, Editor!CleanIsStored, Editor!ChangesAreWatched,
     Editor!Rendered
<1> QED
  BY <1>5, <1>6, <1>7, <1>8, <1>9 DEF EditorInv

LEMMA StartTransitionKeeps ==
  ASSUME EditorInv, NEW a \in Editor!Actions, saving = None, record # None,
         Editor!StartTransition(a, record),
         UNCHANGED <<docs, role, lostFirst, data, seen, dirty, serial, wanted, excused, record,
                     timer, restoring, uploading>>,
         confirm' \in Editor!Confirmed \union {None}
  PROVE  EditorInv'
<1>1. saving' = [op |-> a, id |-> record.id, version |-> record.version, text |-> data,
                 serial |-> serial, next |-> None, at |-> "sent", result |-> None]
  BY DEF Editor!StartTransition
<1>2. saving' \in Editor!Call /\ saving' # None /\ a # "save"
  BY <1>1, EditorFields, NoneAssumption
     DEF Editor!Call, EditorInv, Editor!TypeOK, Editor!Actions
<1>3. busy' \in BOOLEAN /\ failed' \in BOOLEAN
  BY Zenon DEF Editor!StartTransition
<1>4. Editor!TypeOK'
  BY <1>2, <1>3, Zenon DEF EditorInv, Editor!TypeOK
<1>5. Stored' /\ Dated'
  BY <1>1, EditorFields DEF EditorInv, Stored, Dated, Versions
<1>6. Saving' /\ Telling'
  BY <1>1, <1>2, EditorFields DEF Saving, Telling, About
<1>7. Restoring' /\ Known' /\ Only'
  BY <1>1, RestoringStays DEF EditorInv, Only
<1>8. Editor!InputIsKept' /\ Editor!CleanIsStored' /\ Editor!ChangesAreWatched'
  BY <1>2 DEF EditorInv, Editor!InputIsKept, Editor!CleanIsStored, Editor!ChangesAreWatched,
     Editor!Rendered
<1> QED
  BY <1>4, <1>5, <1>6, <1>7, <1>8 DEF EditorInv

LEMMA StartsKeep ==
  ASSUME EditorInv,
         \/ Editor!ClickSave \/ Editor!Autosave \/ Editor!Confirm
         \/ \E a \in Editor!Actions : Editor!ClickTransition(a)
  PROVE  EditorInv'
<1> USE DEF Editor!server, Editor!form
<1>1. /\ confirm \in Editor!Confirmed \union {None} /\ timer \in BOOLEAN
      /\ excused \in BOOLEAN
  BY Zenon DEF EditorInv, Editor!TypeOK
<1>2. CASE Editor!ClickSave
  <2>1. saving = None
    BY <1>2 DEF Editor!ClickSave, Editor!StartSave
  <2>2. excused' \in BOOLEAN /\ (excused => excused') /\ (excused' \/ seen = data)
    BY <1>1, <1>2, Zenon DEF Editor!ClickSave, Editor!Rendered
  <2> QED
    BY <1>1, <1>2, <2>1, <2>2, StartSaveKeeps DEF Editor!ClickSave
<1>3. CASE Editor!Autosave
  <2>1. timer' \in BOOLEAN
    BY <1>3, Zenon DEF Editor!Autosave
  <2>2. CASE saving = None /\ seen \notin Untitled
    <3>1. excused' \in BOOLEAN /\ (excused => excused') /\ (excused' \/ seen = data)
      BY <1>1, <1>3, <2>2, Zenon DEF Editor!Autosave, Editor!Rendered
    <3> QED
      BY <1>1, <1>3, <2>1, <2>2, <3>1, StartSaveKeeps DEF Editor!Autosave
  <2>3. CASE ~(saving = None /\ seen \notin Untitled)
    <3>1. UNCHANGED <<docs, role, lostFirst, record, saving, restoring, busy, data, seen,
                      serial, wanted, dirty, excused, confirm, failed, uploading>>
      BY <1>3, <2>3 DEF Editor!Autosave
    <3>2. Telling' /\ Editor!InputIsKept' /\ Editor!CleanIsStored' /\ Editor!ChangesAreWatched'
      BY <2>3, <3>1 DEF EditorInv, Telling, Editor!InputIsKept, Stale, Versions,
         Editor!CleanIsStored, Editor!ChangesAreWatched, Editor!Rendered
    <3>3. /\ data \in Editor!Texts /\ seen \in Editor!Texts /\ serial \in Editor!Texts
          /\ wanted \in Editor!Texts /\ dirty \in BOOLEAN /\ failed \in BOOLEAN
          /\ uploading \in BOOLEAN
      BY Zenon DEF EditorInv, Editor!TypeOK
    <3> QED
      BY <1>1, <2>1, <3>1, <3>2, <3>3, EditorFields, PageStepKeeps
  <2> QED
    BY <2>2, <2>3
<1>4. ASSUME NEW a \in Editor!Actions, Editor!Transition(a) PROVE EditorInv'
  <2>1. saving = None
    BY <1>4 DEF Editor!Transition
  <2>2. CASE dirty \/ record = None
    <3>1. excused' \in BOOLEAN /\ (excused => excused') /\ (excused' \/ seen = data)
      BY <1>1, <1>4, <2>2, Zenon DEF Editor!Transition, Editor!Rendered
    <3> QED
      BY <1>1, <1>4, <2>1, <2>2, <3>1, StartSaveKeeps DEF Editor!Transition
  <2>3. CASE ~(dirty \/ record = None)
    BY <1>1, <1>4, <2>1, <2>3, StartTransitionKeeps DEF Editor!Transition
  <2> QED
    BY <2>2, <2>3
<1>5. CASE Editor!Confirm
  <2>1. confirm \in Editor!Actions
    BY <1>1, <1>5 DEF Editor!Confirm, Editor!Confirmed, Editor!Actions
  <2> QED
    BY <1>4, <1>5, <2>1 DEF Editor!Confirm
<1> QED
  BY <1>2, <1>3, <1>4, <1>5 DEF Editor!ClickTransition

LEMMA FailuresKeep ==
  ASSUME EditorInv, Editor!Refused \/ Editor!Lost PROVE EditorInv'
<1> USE DEF Editor!server, Editor!form
<1>1. /\ saving # None /\ saving' = None /\ failed' = TRUE /\ busy' = FALSE
      /\ UNCHANGED <<docs, role, data, seen, dirty, serial, wanted, excused, record, confirm,
                     timer, restoring, uploading>>
      /\ lostFirst' = lostFirst \/ lostFirst' = (lostFirst \/ (saving.id = 0 /\ saving.at = "done"))
      /\ (saving.id = 0 /\ saving.at = "done") => lostFirst'
  BY DEF Editor!Refused, Editor!Lost
<1>2. lostFirst' \in BOOLEAN /\ (lostFirst => lostFirst')
  <2>1. lostFirst \in BOOLEAN
    BY Zenon DEF EditorInv, Editor!TypeOK
  <2>2. CASE lostFirst' = lostFirst
    BY <2>1, <2>2, Zenon
  <2>3. CASE lostFirst' = (lostFirst \/ (saving.id = 0 /\ saving.at = "done"))
    BY <2>1, <2>3, Zenon
  <2> QED
    BY <1>1, <2>2, <2>3, Zenon
<1>3. Editor!TypeOK'
  BY <1>1, <1>2, Zenon DEF EditorInv, Editor!TypeOK
<1>4. Stored' /\ Dated' /\ Saving' /\ Telling' /\ Restoring' /\ Known'
  BY <1>1, RestoringStays DEF EditorInv, Stored, Dated, Versions, Saving, Telling
<1>5. Only'
  BY <1>1, <1>2 DEF EditorInv, Only
<1>6. Editor!InputIsKept' /\ Editor!CleanIsStored' /\ Editor!ChangesAreWatched'
  BY <1>1 DEF EditorInv, Editor!InputIsKept, Editor!CleanIsStored, Editor!ChangesAreWatched,
     Editor!Rendered
<1> QED
  BY <1>3, <1>4, <1>5, <1>6 DEF EditorInv

\* The page takes over the record of an answer: calls that were about its
\* document still are.
LEMMA RecordMoves ==
  ASSUME EditorInv, UNCHANGED docs, NEW r \in Editor!Record, record' = r,
         r.id \in 1 .. Len(docs), r.version <= Versions(r.id),
         record # None => r.id = record.id /\ r.version = record.version + 1
  PROVE  /\ record' # None /\ Known'
         /\ \A c : (c.version \in Nat /\ About(c)) => About(c)'
<1>1. record' # None
  BY NoneAssumption
<1>2. Known'
  BY <1>1 DEF Known, Versions
<1>3. r.version \in Nat /\ (record # None => record.version \in Nat)
  BY EditorFields, BoundsAssumption DEF Editor!Record
<1>4. ASSUME NEW c, c.version \in Nat, About(c) PROVE About(c)'
  BY <1>1, <1>3, <1>4 DEF About
<1> QED
  BY <1>1, <1>2, <1>4

LEMMA TransitionedKeeps ==
  ASSUME EditorInv, Editor!Transitioned PROVE EditorInv'
<1> USE DEF Editor!server, Editor!form
<1>1. /\ saving # None /\ saving.op # "save" /\ saving.at = "done"
      /\ saving.op \notin {"trash", "delete"}
      /\ record' = saving.result /\ saving' = None /\ timer' = dirty /\ busy' = FALSE
      /\ UNCHANGED <<docs, role, lostFirst, data, seen, dirty, serial, wanted, excused, failed,
                     confirm, restoring, uploading>>
  BY DEF Editor!Transitioned
<1>2. /\ saving.id # 0 /\ record # None /\ saving.id = record.id
      /\ Served(saving) /\ saving.result # None
      /\ docs[saving.id].history[saving.result.version] = docs[saving.id].history[saving.version]
  BY <1>1 DEF EditorInv, Saving, About
<1>3. /\ saving.result \in Editor!Record /\ saving.result.id = record.id
      /\ saving.version = record.version /\ saving.result.version = record.version + 1
      /\ record.id \in 1 .. Len(docs) /\ record.version < Versions(record.id)
      /\ record.version \in Nat /\ Versions(record.id) \in Nat
  BY <1>1, <1>2, EditorFields DEF Served
<1>4. record' # None /\ Known' /\ \A c : (c.version \in Nat /\ About(c)) => About(c)'
  BY <1>1, <1>3, RecordMoves
<1>5. timer' \in BOOLEAN /\ busy' \in BOOLEAN
  BY <1>1, Zenon DEF EditorInv, Editor!TypeOK
<1>6. Editor!TypeOK'
  BY <1>1, <1>3, <1>5, Zenon DEF EditorInv, Editor!TypeOK
<1>7. Stored' /\ Dated' /\ Saving' /\ Telling'
  BY <1>1 DEF EditorInv, Stored, Dated, Versions, Saving, Telling
<1>8. Restoring'
  <2> SUFFICES ASSUME restoring # None PROVE Restoring'
    BY <1>1 DEF Restoring
  <2>1. About(restoring) /\ restoring.at # "done" /\ restoring.version \in Nat
    BY <1>1, EditorFields DEF EditorInv, Restoring
  <2>2. About(restoring)'
    BY <1>1, <1>4, <2>1 DEF About
  <2> QED
    BY <1>1, <2>1, <2>2 DEF Restoring
<1>9. Only'
  BY <1>1, <1>2, <1>4 DEF EditorInv, Only
<1>10. Editor!CleanIsStored'
  BY <1>1, <1>2, <1>3 DEF EditorInv, Editor!CleanIsStored, Editor!Rendered
<1>11. Editor!InputIsKept' /\ Editor!ChangesAreWatched'
  BY <1>1 DEF EditorInv, Editor!InputIsKept, Editor!ChangesAreWatched, Editor!Rendered
<1> QED
  BY <1>4, <1>6, <1>7, <1>8, <1>9, <1>10, <1>11 DEF EditorInv

LEMMA SavedKeeps ==
  ASSUME EditorInv, Editor!Saved PROVE EditorInv'
<1> USE DEF Editor!server, Editor!form
<1> DEFINE r == saving.result
<1>1. /\ saving # None /\ saving.op = "save" /\ saving.at = "done"
      /\ record' = r
      /\ UNCHANGED <<docs, role, lostFirst, serial, wanted, excused, confirm, restoring,
                     uploading>>
  BY DEF Editor!Saved
<1>2. /\ r # None /\ docs[r.id].history[r.version] = saving.text
      /\ saving.id = 0 => record = None /\ r.version = 1 /\ r.id \in 1 .. Len(docs)
      /\ saving.id # 0 => About(saving) /\ Served(saving)
  BY <1>1 DEF EditorInv, Saving
<1>3. /\ r \in Editor!Record /\ r.id \in 1 .. 2 /\ r.version \in 1 .. MaxVersion
      /\ r.id \in 1 .. Len(docs) /\ r.version <= Versions(r.id)
      /\ record # None => r.id = record.id /\ r.version = record.version + 1
  <2>1. r \in Editor!Record /\ r.id \in 1 .. 2 /\ r.version \in 1 .. MaxVersion
    BY <1>1, <1>2, EditorFields DEF Editor!Record
  <2>2. CASE saving.id = 0
    <3>1. Versions(r.id) \in 1 .. MaxVersion
      BY <1>2, <2>2 DEF EditorInv, Stored
    <3> QED
      BY <1>2, <2>1, <2>2, <3>1
  <2>3. CASE saving.id # 0
    <3>1. /\ record # None /\ r.id = record.id /\ saving.id = record.id
          /\ r.version = saving.version + 1
          /\ saving.version = record.version /\ saving.version < Versions(saving.id)
      BY <1>2, <2>3 DEF About, Served
    <3>2. record.id \in 1 .. Len(docs) /\ record.version \in Nat /\ Versions(record.id) \in Nat
      BY <3>1, EditorFields
    <3> QED
      BY <2>1, <3>1, <3>2
  <2> QED
    BY <2>2, <2>3
<1>4. record' # None /\ Known' /\ \A c : (c.version \in Nat /\ About(c)) => About(c)'
  BY <1>1, <1>3, RecordMoves
<1>5. /\ data' \in Editor!Texts /\ seen' \in Editor!Texts /\ dirty' \in BOOLEAN
      /\ timer' \in BOOLEAN
  <2>1. dirty' \in BOOLEAN /\ timer' \in BOOLEAN
    BY Zenon DEF EditorInv, Editor!TypeOK, Editor!Saved
  <2> QED
    BY <1>1, <2>1, EditorFields DEF EditorInv, Editor!TypeOK, Editor!Saved
<1>6. \/ saving' = None /\ busy' = FALSE /\ failed' = failed
      \/ /\ saving.next # None /\ saving.next \in Editor!Actions
         /\ saving' = [op |-> saving.next, id |-> r.id, version |-> r.version, text |-> data,
                       serial |-> serial, next |-> None, at |-> "sent", result |-> None]
         /\ busy' = TRUE /\ failed' = FALSE
  <2>1. CASE saving.next = None
    BY <1>1, <2>1 DEF Editor!Saved
  <2>2. CASE saving.next # None
    BY <1>1, <2>2, EditorFields DEF Editor!Saved, Editor!StartTransition
  <2> QED
    BY <2>1, <2>2
<1>7. busy' \in BOOLEAN /\ failed' \in BOOLEAN
  BY <1>6, Zenon DEF EditorInv, Editor!TypeOK
<1>8. saving' \in Editor!Call \union {None}
  BY <1>3, <1>5, <1>6, EditorFields DEF Editor!Call, EditorInv, Editor!TypeOK
<1>9. Editor!TypeOK'
  BY <1>1, <1>3, <1>5, <1>7, <1>8, Zenon DEF EditorInv, Editor!TypeOK
<1>10. data' \in Nat /\ seen' \in Nat /\ data' <= serial /\ seen' <= serial
  BY <1>1, <1>5, EditorFields DEF Editor!Saved, Editor!Texts
<1>11. Stored' /\ Dated'
  BY <1>1, <1>6, <1>10, EditorFields DEF EditorInv, Stored, Dated, Versions
<1>12. Saving' /\ Telling'
  BY <1>1, <1>3, <1>4, <1>6 DEF Saving, Telling, About, Editor!Actions
<1>13. Restoring'
  <2> SUFFICES ASSUME restoring # None PROVE Restoring'
    BY <1>1 DEF Restoring
  <2>1. About(restoring) /\ restoring.at # "done" /\ restoring.version \in Nat
    BY <1>1, EditorFields DEF EditorInv, Restoring
  <2>2. About(restoring)'
    BY <1>1, <1>4, <2>1 DEF About
  <2> QED
    BY <1>1, <2>1, <2>2 DEF Restoring
<1>14. Only'
  BY <1>1, <1>2, <1>3, <1>4, EditorFields DEF EditorInv, Only
<1>15. Editor!InputIsKept' /\ Editor!CleanIsStored'
  <2>1. CASE serial = saving.serial
    <3>1. data' = saving.text /\ (excused \/ saving.text = data)
      BY <1>1, <2>1 DEF EditorInv, Telling, Stale, Editor!Saved
    <3> QED
      BY <1>1, <1>2, <3>1 DEF EditorInv, Editor!InputIsKept, Editor!CleanIsStored
  <2>2. CASE serial # saving.serial
    <3>1. UNCHANGED <<data, seen, dirty>> /\ (dirty \/ seen # data)
      BY <1>1, <2>2 DEF EditorInv, Telling, Stale, Editor!Saved
    <3> QED
      BY <1>1, <3>1 DEF EditorInv, Editor!InputIsKept, Editor!CleanIsStored, Editor!Rendered
  <2> QED
    BY <2>1, <2>2
<1>16. Editor!ChangesAreWatched'
  <2>1. dirty' => timer' \/ dirty' = FALSE
    BY <1>5, Zenon DEF Editor!Saved
  <2> QED
    BY <1>5, <2>1, Zenon DEF Editor!ChangesAreWatched
<1> QED
  BY <1>4, <1>9, <1>11, <1>12, <1>13, <1>14, <1>15, <1>16 DEF EditorInv

LEMMA RestoreKeeps ==
  ASSUME EditorInv, NEW v \in 1 .. MaxVersion, Editor!Restore(v) PROVE EditorInv'
<1> USE DEF Editor!server, Editor!form
<1>1. /\ record # None /\ v <= record.version /\ busy' = TRUE
      /\ restoring' = [id |-> record.id, version |-> record.version,
                       text |-> docs[record.id].history[v], serial |-> serial,
                       at |-> "sent", result |-> None]
      /\ UNCHANGED <<docs, role, lostFirst, data, seen, dirty, serial, wanted, excused, record,
                     failed, confirm, timer, saving, uploading>>
  BY DEF Editor!Restore
<1>2. /\ v \in 1 .. Versions(record.id) /\ docs[record.id] \in Editor!Doc
      /\ record.id \in 1 .. Len(docs)
  <2>1. /\ record.id \in 1 .. Len(docs) /\ record.version <= Versions(record.id)
        /\ record.version \in Nat /\ Versions(record.id) \in Nat /\ MaxVersion \in Nat
    BY <1>1, EditorFields
  <2> QED
    BY <1>1, <2>1, EditorFields
<1>3. docs[record.id].history[v] \in Editor!Texts /\ docs[record.id].history[v] <= serial
  BY <1>2 DEF EditorInv, Stored, Versions, Editor!Doc
<1>4. restoring' \in Editor!Restoration
  BY <1>1, <1>3, EditorFields DEF Editor!Restoration, EditorInv, Editor!TypeOK
<1>5. Editor!TypeOK'
  BY <1>1, <1>4, Zenon DEF EditorInv, Editor!TypeOK
<1>6. Stored' /\ Dated'
  BY <1>1, <1>3, EditorFields DEF EditorInv, Stored, Dated, Versions
<1>7. Saving' /\ Telling' /\ Known' /\ Only'
  BY <1>1 DEF EditorInv, Saving, Telling, Stale, Known, Only, About, Served, Versions
<1>8. Restoring'
  BY <1>1, EditorFields DEF Restoring, About
<1>9. Editor!InputIsKept' /\ Editor!CleanIsStored' /\ Editor!ChangesAreWatched'
  BY <1>1 DEF EditorInv, Editor!InputIsKept, Editor!CleanIsStored, Editor!ChangesAreWatched,
     Editor!Rendered
<1> QED
  BY <1>5, <1>6, <1>7, <1>8, <1>9 DEF EditorInv

LEMMA RestoreFailedKeeps ==
  ASSUME EditorInv, Editor!RestoreFailed PROVE EditorInv'
<1> USE DEF Editor!server, Editor!form
<1>1. /\ restoring' = None /\ failed' = TRUE /\ busy' = FALSE
      /\ UNCHANGED <<docs, role, lostFirst, data, seen, dirty, serial, wanted, excused, record,
                     confirm, timer, saving, uploading>>
  BY DEF Editor!RestoreFailed
<1>2. Editor!TypeOK'
  BY <1>1, Zenon DEF EditorInv, Editor!TypeOK
<1>3. /\ Stored' /\ Dated' /\ Saving' /\ Telling' /\ Known' /\ Only' /\ Restoring'
  BY <1>1 DEF EditorInv, Stored, Dated, Saving, Telling, Stale, Known, Only, About, Served,
     Versions, Restoring
<1>4. Editor!InputIsKept' /\ Editor!CleanIsStored' /\ Editor!ChangesAreWatched'
  BY <1>1 DEF EditorInv, Editor!InputIsKept, Editor!CleanIsStored, Editor!ChangesAreWatched,
     Editor!Rendered
<1> QED
  BY <1>2, <1>3, <1>4 DEF EditorInv

\* A save that runs when a restoration has been served is stale: it may not
\* change what the page shows from now on.
LEMMA RestoredKeeps ==
  ASSUME EditorInv, Editor!Restored PROVE EditorInv'
<1> USE DEF Editor!server
<1> DEFINE r == restoring.result
<1>1. /\ restoring # None /\ restoring.at = "done" /\ record' = r
      /\ data' = restoring.text /\ seen' = restoring.text /\ dirty' = FALSE /\ timer' = FALSE
      /\ wanted' = IF serial = restoring.serial THEN restoring.text ELSE wanted
      /\ excused' = (serial # restoring.serial)
      /\ restoring' = None /\ busy' = FALSE
      /\ UNCHANGED <<docs, role, lostFirst, serial, failed, confirm, saving, uploading>>
  BY DEF Editor!Restored
<1>2. /\ record # None /\ restoring.id = record.id /\ Served(restoring) /\ r # None
      /\ docs[restoring.id].history[r.version] = restoring.text
      /\ saving # None => saving.at # "done"
  BY <1>1 DEF EditorInv, Restoring, About
<1>3. /\ r \in Editor!Record /\ r.id = record.id /\ r.version = record.version + 1
      /\ restoring.version = record.version
      /\ record.id \in 1 .. Len(docs) /\ record.version < Versions(record.id)
      /\ record.version \in Nat /\ Versions(record.id) \in Nat
  BY <1>1, <1>2, EditorFields DEF Served
<1>4. record' # None /\ Known' /\ \A c : (c.version \in Nat /\ About(c)) => About(c)'
  BY <1>1, <1>3, RecordMoves
<1>5. restoring.text \in Editor!Texts /\ restoring.text <= serial /\ restoring.serial \in Nat
  BY <1>1, EditorFields
<1>6. wanted' \in Editor!Texts /\ excused' \in BOOLEAN
  <2>1. excused' \in BOOLEAN
    BY <1>1, Zenon
  <2> QED
    BY <1>1, <1>5, <2>1 DEF EditorInv, Editor!TypeOK
<1>7. Editor!TypeOK'
  BY <1>1, <1>3, <1>5, <1>6, Zenon DEF EditorInv, Editor!TypeOK
<1>8. Stored' /\ Dated'
  BY <1>1, <1>5 DEF EditorInv, Stored, Dated, Versions
<1>9. saving # None => /\ saving.id # 0 /\ About(saving) /\ About(saving)'
                       /\ Stale(saving) /\ Stale(saving)'
  <2> SUFFICES ASSUME saving # None
               PROVE  /\ saving.id # 0 /\ About(saving) /\ About(saving)'
                      /\ Stale(saving) /\ Stale(saving)'
    OBVIOUS
  <2>1. saving.id # 0 /\ About(saving) /\ saving.version \in Nat
    BY <1>2, EditorFields DEF EditorInv, Saving
  <2>2. saving.version < Versions(saving.id)
    BY <1>3, <2>1 DEF About
  <2>3. Stale(saving)
    BY <1>2, <2>1, <2>2 DEF Stale
  <2>4. Stale(saving)'
    BY <1>1, <2>3 DEF Stale, Versions
  <2>5. About(saving)'
    BY <1>1, <1>4, <2>1 DEF About
  <2> QED
    BY <2>1, <2>3, <2>4, <2>5
<1>10. Saving' /\ Telling'
  <2>1. Telling'
    BY <1>1, <1>9 DEF Telling
  <2>2. Saving'
    BY <1>1, <1>2, <1>9 DEF Saving
  <2> QED
    BY <2>1, <2>2
<1>11. Restoring' /\ Only'
  BY <1>1, <1>2, <1>4 DEF EditorInv, Restoring, Only
<1>12. Editor!CleanIsStored'
  BY <1>1, <1>2, <1>3 DEF Editor!CleanIsStored
<1>13. Editor!InputIsKept'
  BY <1>1 DEF Editor!InputIsKept
<1>14. Editor!ChangesAreWatched'
  BY <1>1 DEF Editor!ChangesAreWatched
<1> QED
  BY <1>4, <1>7, <1>8, <1>10, <1>11, <1>12, <1>13, <1>14 DEF EditorInv

(* The server's side: documents only gain versions. *)

Grows ==
  /\ docs' \in Seq(Editor!Doc) /\ Stored'
  /\ \A i \in 1 .. Len(docs) :
       /\ i \in 1 .. Len(docs') /\ Versions(i) <= Versions(i)'
       /\ \A n \in 1 .. Versions(i) : docs'[i].history[n] = docs[i].history[n]
  /\ UNCHANGED <<data, seen, dirty, serial, wanted, excused, role, record, busy, failed,
                 confirm, timer, uploading, lostFirst>>

LEMMA VersionsStay ==
  ASSUME EditorInv, Grows
  PROVE  /\ Known' /\ Editor!InputIsKept' /\ Editor!CleanIsStored'
         /\ \A i \in 1 .. Len(docs) : Versions(i) \in Nat /\ Versions(i)' \in Nat
<1>1. \A i \in 1 .. Len(docs) : Versions(i) \in Nat /\ Versions(i)' \in Nat
  BY EditorFields, BoundsAssumption DEF Grows, Stored
<1>2. record # None => /\ record.id \in 1 .. Len(docs)
                       /\ record.version \in 1 .. Versions(record.id)
  <2> SUFFICES ASSUME record # None
               PROVE  /\ record.id \in 1 .. Len(docs)
                      /\ record.version \in 1 .. Versions(record.id)
    OBVIOUS
  <2>1. /\ record.id \in 1 .. Len(docs) /\ record.version \in 1 .. MaxVersion
        /\ record.version <= Versions(record.id) /\ MaxVersion \in Nat
    BY EditorFields
  <2> QED
    BY <1>1, <2>1
<1>3. Known'
  BY <1>1, <1>2 DEF Known, Grows
<1>4. Editor!CleanIsStored'
  BY <1>2 DEF EditorInv, Editor!CleanIsStored, Editor!Rendered, Grows
<1>5. Editor!InputIsKept'
  BY DEF EditorInv, Editor!InputIsKept, Grows
<1> QED
  BY <1>1, <1>3, <1>4, <1>5

LEMMA CallStays ==
  ASSUME EditorInv, Grows, saving' = saving
  PROVE  Saving' /\ Telling'
<1> SUFFICES ASSUME saving # None PROVE Saving' /\ Telling'
  BY DEF Saving, Telling
<1>1. record' = record /\ (About(saving)' <=> About(saving))
  BY DEF Grows, About
<1>2. /\ saving.id \in 0 .. 2 /\ saving.version \in 0 .. MaxVersion
      /\ saving.result \in Editor!Record \union {None} /\ MaxVersion \in Nat
  BY EditorFields
<1>3. saving.id # 0 => /\ saving.id \in 1 .. Len(docs)
                       /\ Versions(saving.id) \in Nat /\ Versions(saving.id)' \in Nat
                       /\ Versions(saving.id) <= Versions(saving.id)'
                       /\ record # None /\ About(saving)
  BY EditorFields, VersionsStay DEF EditorInv, Saving, About, Grows
<1>4. Saving'
  <2>1. ASSUME saving.at = "done", saving.id # 0
        PROVE  /\ Served(saving)'
               /\ saving.op # "delete" => saving.result # None
               /\ saving.op = "save" =>
                    docs'[saving.result.id].history[saving.result.version] = saving.text
               /\ saving.op \notin {"save", "delete"} =>
                    docs'[saving.id].history[saving.result.version] =
                      docs'[saving.id].history[saving.version]
    <3>1. /\ Served(saving)
          /\ saving.op # "delete" => saving.result # None
          /\ saving.op = "save" =>
               docs[saving.result.id].history[saving.result.version] = saving.text
          /\ saving.op \notin {"save", "delete"} =>
               docs[saving.id].history[saving.result.version] =
                 docs[saving.id].history[saving.version]
      BY <2>1 DEF EditorInv, Saving
    <3>2. Served(saving)'
      BY <1>1, <1>2, <1>3, <2>1, <3>1 DEF Served
    <3>3. saving.version \in 1 .. Versions(saving.id)
      <4>1. saving.version = record.version /\ record.version \in 1 .. MaxVersion
        BY <1>3, <2>1, <3>1, EditorFields DEF Served
      <4> QED
        BY <1>2, <1>3, <2>1, <3>1, <4>1 DEF Served
    <3>4. saving.result # None => /\ saving.result.id = saving.id
                                  /\ saving.result.version \in 1 .. Versions(saving.id)
      BY <1>3, <2>1, <3>1, <3>3 DEF Served
    <3> QED
      BY <1>3, <2>1, <3>1, <3>2, <3>3, <3>4 DEF Grows
  <2>2. ASSUME saving.at = "done", saving.id = 0
        PROVE  /\ saving.op = "save" /\ saving.result # None
               /\ saving.result.version = 1 /\ saving.result.id \in 1 .. Len(docs')
               /\ docs'[saving.result.id].history[saving.result.version] = saving.text
    <3>1. /\ saving.op = "save" /\ saving.result # None
          /\ saving.result.version = 1 /\ saving.result.id \in 1 .. Len(docs)
          /\ docs[saving.result.id].history[saving.result.version] = saving.text
      BY <2>2 DEF EditorInv, Saving
    <3>2. 1 \in 1 .. Versions(saving.result.id)
      BY <3>1, BoundsAssumption DEF EditorInv, Stored
    <3> QED
      BY <3>1, <3>2 DEF Grows
  <2>3. saving.id = 0 => saving.op = "save" /\ record = None
    BY DEF EditorInv, Saving
  <2> QED
    BY <1>1, <1>3, <2>1, <2>2, <2>3 DEF Saving
<1>5. Telling'
  <2>1. Stale(saving) => Stale(saving)'
    BY <1>2, <1>3 DEF Stale
  <2> QED
    BY <2>1 DEF EditorInv, Telling, Grows
<1> QED
  BY <1>4, <1>5

LEMMA RestorationStays ==
  ASSUME EditorInv, Grows, restoring' = restoring,
         saving' # None /\ saving'.at = "done" /\ restoring # None =>
           saving' = saving \/ restoring.at # "done"
  PROVE  Restoring'
<1> SUFFICES ASSUME restoring # None PROVE Restoring'
  BY DEF Restoring
<1>1. record' = record /\ (About(restoring)' <=> About(restoring)) /\ About(restoring)
  BY DEF Grows, About, EditorInv, Restoring
<1>2. /\ restoring.version \in 1 .. MaxVersion /\ restoring.id \in 1 .. Len(docs)
      /\ Versions(restoring.id) \in Nat /\ Versions(restoring.id)' \in Nat
      /\ Versions(restoring.id) <= Versions(restoring.id)' /\ MaxVersion \in Nat
  BY <1>1, EditorFields, VersionsStay DEF About, Grows
<1>3. ASSUME restoring.at = "done"
      PROVE  /\ Served(restoring)' /\ restoring.result # None
             /\ docs'[restoring.id].history[restoring.result.version] = restoring.text
             /\ saving' # None => saving'.at # "done"
  <2>1. /\ Served(restoring) /\ restoring.result # None
        /\ docs[restoring.id].history[restoring.result.version] = restoring.text
        /\ saving # None => saving.at # "done"
    BY <1>3 DEF EditorInv, Restoring
  <2>2. Served(restoring)'
    BY <1>1, <1>2, <1>3, <2>1 DEF Served
  <2>3. restoring.result.version \in 1 .. Versions(restoring.id)
    BY <1>2, <2>1 DEF Served
  <2> QED
    BY <1>2, <1>3, <2>1, <2>2, <2>3 DEF Grows
<1> QED
  BY <1>1, <1>3 DEF Restoring

LEMMA VersionAdded ==
  \A d \in Editor!Doc, t \in Editor!Texts :
    /\ Editor!Append1(d, t) \in Editor!Doc
    /\ Editor!Append1(d, t).history = Append(d.history, t)
    /\ Editor!Append1(d, t).status = d.status
BY DEF Editor!Append1, Editor!Doc

LEMMA TransitionsKeepTexts ==
  ASSUME NEW d \in Editor!Doc, d.history # <<>>, NEW a \in Editor!Actions
  PROVE  /\ Editor!Draft(d) \in Editor!Texts
         /\ Editor!After(a, d) \in Editor!Doc /\ Editor!After(a, d).history = d.history
         /\ (a # "delete" /\ d.status # "deleted") => Editor!After(a, d).status # "deleted"
<1>1. Editor!Draft(d) \in Editor!Texts
  BY DEF Editor!Draft, Editor!Doc
<1> USE <1>1 DEF Editor!After, Editor!Doc
<1>2. CASE a = "submit" \/ a = "return" \/ a = "trash" \/ a = "delete"
  BY <1>2
<1>3. CASE a = "publish"
  BY <1>3
<1>4. CASE a = "unpublish"
  BY <1>4
<1>5. CASE a = "restore"
  BY <1>5
<1> QED
  BY <1>2, <1>3, <1>4, <1>5 DEF Editor!Actions

\* A document is stored with one more version.
LEMMA StoringGrows ==
  ASSUME EditorInv, NEW i \in 1 .. Len(docs), NEW d \in Editor!Doc, NEW t \in Editor!Texts,
         t <= serial, d.history = Append(docs[i].history, t), Editor!Store(i, d),
         UNCHANGED <<data, seen, dirty, serial, wanted, excused, role, record, busy, failed,
                     confirm, timer, uploading, lostFirst>>
  PROVE  /\ Grows /\ Len(docs') = Len(docs)
         /\ Versions(i)' = Versions(i) + 1 /\ Versions(i) + 1 \in 1 .. MaxVersion
         /\ docs'[i].history[Versions(i) + 1] = t
         /\ \A n \in 1 .. Versions(i) : docs'[i].history[n] = docs[i].history[n]
<1>1. /\ docs \in Seq(Editor!Doc) /\ docs[i].history \in Seq(Editor!Texts)
      /\ Versions(i) \in Nat /\ Len(docs) \in Nat /\ serial \in Nat
  <2>1. docs \in Seq(Editor!Doc) /\ docs[i] \in Editor!Doc /\ Len(docs) \in Nat /\ serial \in Nat
    BY EditorFields
  <2>2. docs[i].history \in Seq(Editor!Texts)
    BY <2>1 DEF Editor!Doc
  <2> QED
    BY <2>1, <2>2, EditorFields
<1>2. docs' = [docs EXCEPT ![i] = d] /\ Len(d.history) <= MaxVersion
  BY DEF Editor!Store
<1>3. /\ docs' \in Seq(Editor!Doc) /\ Len(docs') = Len(docs) /\ docs'[i] = d
      /\ \A k \in 1 .. Len(docs) : k # i => docs'[k] = docs[k]
  BY <1>1, <1>2
<1>4. /\ Len(d.history) = Versions(i) + 1 /\ d.history[Versions(i) + 1] = t
      /\ \A n \in 1 .. Versions(i) : d.history[n] = docs[i].history[n]
  BY <1>1 DEF Versions
<1>5. Versions(i)' = Versions(i) + 1 /\ Versions(i) + 1 \in 1 .. MaxVersion
  BY <1>1, <1>2, <1>3, <1>4, BoundsAssumption DEF Versions
<1>6. \A k \in 1 .. Len(docs) : k # i => Versions(k)' = Versions(k)
  BY <1>3 DEF Versions
<1>7. ASSUME NEW k \in 1 .. Len(docs')
      PROVE  /\ Versions(k)' \in 1 .. MaxVersion
             /\ \A n \in 1 .. Versions(k)' : docs'[k].history[n] <= serial
  <2>1. CASE k = i
    <3>1. ASSUME NEW n \in 1 .. Versions(i)' PROVE docs'[i].history[n] <= serial
      <4>1. CASE n = Versions(i) + 1
        BY <1>3, <1>4, <4>1
      <4>2. CASE n # Versions(i) + 1
        <5>1. n \in 1 .. Versions(i)
          BY <1>1, <1>5, <4>2
        <5> QED
          BY <1>3, <1>4, <5>1 DEF EditorInv, Stored
      <4> QED
        BY <4>1, <4>2
    <3> QED
      BY <1>5, <2>1, <3>1
  <2>2. CASE k # i
    BY <1>3, <1>6, <2>2 DEF EditorInv, Stored
  <2> QED
    BY <2>1, <2>2
<1>8. Stored'
  BY <1>3, <1>7 DEF EditorInv, Stored
<1>9. ASSUME NEW k \in 1 .. Len(docs)
      PROVE  /\ k \in 1 .. Len(docs') /\ Versions(k) <= Versions(k)'
             /\ \A n \in 1 .. Versions(k) : docs'[k].history[n] = docs[k].history[n]
  <2>1. Versions(k) \in Nat
    BY EditorFields
  <2>2. CASE k = i
    <3>1. i \in 1 .. Len(docs') /\ Versions(i) <= Versions(i)'
      BY <1>1, <1>3, <1>5
    <3>2. \A n \in 1 .. Versions(i) : docs'[i].history[n] = docs[i].history[n]
      BY <1>3, <1>4
    <3>3. Versions(k) = Versions(i) /\ Versions(k)' = Versions(i)'
      BY <2>2 DEF Versions
    <3> QED
      BY <2>2, <3>1, <3>2, <3>3
  <2>3. CASE k # i
    BY <1>3, <1>6, <2>1, <2>3
  <2> QED
    BY <2>2, <2>3
<1> QED
  BY <1>3, <1>4, <1>5, <1>8, <1>9 DEF Grows

\* The record of a stored document.
LEMMA RecordIsTyped ==
  ASSUME NEW d \in Editor!Doc, NEW i \in 1 .. 2, Len(d.history) \in 1 .. MaxVersion,
         d.status # "deleted"
  PROVE  /\ Editor!RecordOf(d, i) \in Editor!Record /\ Editor!RecordOf(d, i) # None
         /\ Editor!RecordOf(d, i).id = i
         /\ Editor!RecordOf(d, i).version = Len(d.history)
<1>1. Editor!RecordOf(d, i) \in Editor!Record
  BY DEF Editor!RecordOf, Editor!Record, Editor!Doc
<1> QED
  BY <1>1, NoneAssumption DEF Editor!RecordOf

\* What a step of the server leaves to be shown, and who is told.
LEMMA ServerStepKeeps ==
  ASSUME EditorInv, Grows,
         saving' \in Editor!Call \union {None}, restoring' \in Editor!Restoration \union {None},
         saving # None => saving' # None,
         Dated', Saving', Telling', Restoring', Only'
  PROVE  EditorInv'
<1>1. Editor!TypeOK'
  BY Zenon DEF EditorInv, Editor!TypeOK, Grows
<1>2. Editor!ChangesAreWatched'
  BY DEF EditorInv, Editor!ChangesAreWatched, Editor!Rendered, Grows
<1> QED
  BY <1>1, <1>2, VersionsStay DEF EditorInv, Grows

LEMMA SomebodyElseKeeps ==
  ASSUME EditorInv, Editor!SomebodyElse PROVE EditorInv'
<1> USE DEF Editor!form
<1> PICK i \in 1 .. Len(docs), publish \in BOOLEAN :
      Editor!Store(i, IF publish
                      THEN Editor!Append1(Editor!After("publish", docs[i]), Editor!Draft(docs[i]))
                      ELSE Editor!Append1(docs[i], 0))
  BY DEF Editor!SomebodyElse
<1>1. /\ UNCHANGED <<data, seen, dirty, serial, wanted, excused, role, record, busy, failed,
                     confirm, timer, uploading, lostFirst>>
      /\ saving' = saving /\ restoring' = restoring
  BY DEF Editor!SomebodyElse
<1>2. docs[i] \in Editor!Doc /\ docs[i].history # <<>> /\ Editor!Draft(docs[i]) <= serial
  <2>1. docs[i] \in Editor!Doc /\ Versions(i) \in 1 .. MaxVersion
    BY EditorFields DEF EditorInv, Stored
  <2>2. docs[i].history # <<>>
    BY <2>1 DEF Versions, Editor!Doc
  <2>3. Editor!Draft(docs[i]) <= serial
    BY <2>1 DEF EditorInv, Stored, Versions, Editor!Draft
  <2> QED
    BY <2>1, <2>2, <2>3
<1>3. Grows /\ Len(docs') = Len(docs)
  <2>1. CASE publish
    <3> DEFINE p == Editor!After("publish", docs[i])
               t == Editor!Draft(docs[i])
    <3>1. p \in Editor!Doc /\ t \in Editor!Texts /\ p.history = docs[i].history
      BY <1>2, TransitionsKeepTexts DEF Editor!Actions
    <3>2. Editor!Append1(p, t) \in Editor!Doc
          /\ Editor!Append1(p, t).history = Append(docs[i].history, t)
      BY <3>1, VersionAdded
    <3>3. Editor!Store(i, Editor!Append1(p, t))
      BY <2>1
    <3> QED
      BY <1>1, <1>2, <3>1, <3>2, <3>3, StoringGrows
  <2>2. CASE ~publish
    <3>1. 0 \in Editor!Texts /\ 0 <= serial
      BY EditorFields, BoundsAssumption DEF Editor!Texts
    <3>2. /\ Editor!Append1(docs[i], 0) \in Editor!Doc
          /\ Editor!Append1(docs[i], 0).history = Append(docs[i].history, 0)
      BY <1>2, <3>1, VersionAdded
    <3>3. Editor!Store(i, Editor!Append1(docs[i], 0))
      BY <2>2
    <3> QED
      BY <1>1, <3>1, <3>2, <3>3, StoringGrows
  <2> QED
    BY <2>1, <2>2
<1>4. Dated' /\ Only'
  BY <1>1, <1>3 DEF EditorInv, Dated, Only
<1>5. saving \in Editor!Call \union {None} /\ restoring \in Editor!Restoration \union {None}
  BY DEF EditorInv, Editor!TypeOK
<1> QED
  BY <1>1, <1>3, <1>4, <1>5, CallStays, RestorationStays, ServerStepKeeps

\* The server handles a call about the version that is stored, which is then
\* the one the page knows.
LEMMA AnswerKeeps ==
  ASSUME EditorInv, saving # None, saving.at = "sent", Editor!Current(saving),
         NEW d \in Editor!Doc, NEW t \in Editor!Texts, t <= serial,
         d.history = Append(docs[saving.id].history, t), Editor!Store(saving.id, d),
         saving.op # "delete" => d.status # "deleted",
         saving.op = "save" => t = saving.text,
         saving.op # "save" => t = docs[saving.id].history[saving.version],
         saving' = [saving EXCEPT !.at = "done",
                      !.result = IF saving.op = "delete" THEN None
                                 ELSE Editor!RecordOf(d, saving.id)],
         UNCHANGED <<data, seen, dirty, serial, wanted, excused, role, record, busy, failed,
                     confirm, timer, uploading, lostFirst, restoring>>
  PROVE  EditorInv'
<1> PICK i : i = saving.id
  OBVIOUS
<1> DEFINE r == IF saving.op = "delete" THEN None ELSE Editor!RecordOf(d, saving.id)
<1>1. /\ i # 0 /\ About(saving) /\ saving.version = Versions(i) /\ i \in 1 .. Len(docs)
      /\ i \in 1 .. 2 /\ record # None /\ record.id = i /\ record.version = saving.version
      /\ Versions(i) \in Nat
  <2>1. i # 0 /\ saving.version = Versions(i)
    BY DEF Editor!Current, Versions
  <2>2. About(saving)
    BY <2>1 DEF EditorInv, Saving
  <2> QED
    BY <2>1, <2>2, EditorFields DEF About
<1>2. /\ Grows /\ Len(docs') = Len(docs)
      /\ Versions(i)' = Versions(i) + 1 /\ Versions(i) + 1 \in 1 .. MaxVersion
      /\ docs'[i].history[Versions(i) + 1] = t
      /\ \A n \in 1 .. Versions(i) : docs'[i].history[n] = docs[i].history[n]
      /\ Len(d.history) = Versions(i) + 1
  <2>1. docs[i].history \in Seq(Editor!Texts)
    <3>1. docs[i] \in Editor!Doc
      BY <1>1, EditorFields
    <3> QED
      BY <3>1 DEF Editor!Doc
  <2> QED
    BY <1>1, <2>1, StoringGrows DEF Versions
<1>3. /\ r \in Editor!Record \union {None}
      /\ saving.op # "delete" => /\ r # None /\ r.id = i
                                 /\ r.version = Versions(i) + 1
      /\ saving.op = "delete" => r = None
  BY <1>1, <1>2, RecordIsTyped
<1> HIDE DEF r
<1>4. /\ saving' \in Editor!Call /\ saving' # None /\ saving'.at = "done"
      /\ saving'.result = r /\ saving'.id = i /\ saving'.version = saving.version
      /\ saving'.op = saving.op /\ saving'.text = saving.text /\ saving'.serial = saving.serial
  <2>1. saving' = [saving EXCEPT !.at = "done", !.result = r]
    BY DEF r
  <2>2. saving' \in Editor!Call
    BY <1>3, <2>1, EditorFields DEF Editor!Call
  <2> QED
    BY <2>1, <2>2, EditorFields, NoneAssumption DEF Editor!Call
<1>5. Dated'
  BY <1>4, EditorFields DEF EditorInv, Dated
<1>6. Saving'
  <2>1. About(saving)'
    BY <1>1, <1>4 DEF About
  <2>2. Served(saving)'
    BY <1>1, <1>2, <1>3, <1>4 DEF Served
  <2>3. saving.op = "save" =>
          docs'[saving'.result.id].history[saving'.result.version] = saving'.text
    BY <1>2, <1>3, <1>4
  <2>4. saving.op \notin {"save", "delete"} =>
          docs'[i].history[saving'.result.version] = docs'[i].history[saving.version]
    <3>1. saving.version \in 1 .. Versions(i)
      BY <1>1, EditorFields
    <3> QED
      BY <1>2, <1>3, <1>4, <3>1
  <2> QED
    BY <1>1, <1>3, <1>4, <2>1, <2>2, <2>3, <2>4 DEF Saving
<1>7. Telling'
  <2>1. ~Stale(saving)
    BY <1>1 DEF Stale
  <2> QED
    BY <1>4, <2>1 DEF EditorInv, Telling
<1>8. Restoring'
  <2>1. restoring # None => restoring.at # "done"
    BY <1>1 DEF EditorInv, Restoring, About, Served
  <2> QED
    BY <1>2, <2>1, RestorationStays
<1>9. Only'
  BY <1>1, <1>2 DEF EditorInv, Only
<1>10. restoring' \in Editor!Restoration \union {None}
  BY DEF EditorInv, Editor!TypeOK
<1> QED
  BY <1>2, <1>4, <1>5, <1>6, <1>7, <1>8, <1>9, <1>10, ServerStepKeeps

\* The only document: no page has a record, and no restoration runs, before.
LEMMA FirstSaveKeeps ==
  ASSUME EditorInv, Editor!ServeFirstSave,
         UNCHANGED <<data, seen, dirty, serial, wanted, excused, role, record, busy, failed,
                     confirm, timer, uploading, lostFirst, restoring>>
  PROVE  EditorInv'
<1> PICK i : i = Len(docs) + 1
  OBVIOUS
<1> DEFINE d == [history |-> <<saving.text>>, status |-> "draft", public |-> None]
           r == Editor!RecordOf(d, i)
<1>1. /\ saving # None /\ saving.op = "save" /\ saving.id = 0 /\ saving.at = "sent"
      /\ Len(docs) < 2 /\ docs' = Append(docs, d)
      /\ saving' = [saving EXCEPT !.at = "done", !.result = r] /\ i = Len(docs) + 1
  BY DEF Editor!ServeFirstSave
<1>2. record = None /\ restoring = None
  BY <1>1 DEF EditorInv, Saving, Restoring, About
<1>3. /\ d \in Editor!Doc /\ Len(d.history) = 1 /\ d.history[1] = saving.text
      /\ d.status # "deleted" /\ i \in 1 .. 2
  BY <1>1, EditorFields DEF Editor!Doc
<1>4. r \in Editor!Record /\ r # None /\ r.id = i /\ r.version = 1
  <2> HIDE DEF d
  <2>1. Len(d.history) \in 1 .. MaxVersion
    BY <1>3, BoundsAssumption
  <2> QED
    BY <1>3, <2>1, RecordIsTyped
<1> HIDE DEF d, r
<1>5. /\ docs' \in Seq(Editor!Doc) /\ Len(docs') = i /\ docs'[i] = d
      /\ \A k \in 1 .. Len(docs) : docs'[k] = docs[k]
  BY <1>1, <1>3, EditorFields
<1>6. \A k \in 1 .. Len(docs) : Versions(k)' = Versions(k) /\ Versions(k) \in Nat
  BY <1>5, EditorFields DEF Versions
<1>7. Stored'
  <2>1. Versions(i)' = 1 /\ docs'[i].history[1] <= serial
    BY <1>1, <1>3, <1>5, EditorFields DEF Versions
  <2>2. ASSUME NEW k \in 1 .. Len(docs')
        PROVE  /\ Versions(k)' \in 1 .. MaxVersion
               /\ \A n \in 1 .. Versions(k)' : docs'[k].history[n] <= serial
    <3>1. CASE k = i
      BY <2>1, <3>1, BoundsAssumption
    <3>2. CASE k # i
      <4>1. k \in 1 .. Len(docs)
        BY <1>5, <3>2, EditorFields
      <4> QED
        BY <1>5, <1>6, <4>1 DEF EditorInv, Stored
    <3> QED
      BY <3>1, <3>2
  <2> QED
    BY <1>3, <1>5, <2>2 DEF Stored
<1>8. Grows
  BY <1>5, <1>6, <1>7, EditorFields DEF Grows
<1>9. /\ saving' \in Editor!Call /\ saving' # None /\ saving'.at = "done"
      /\ saving'.result = r /\ saving'.id = 0 /\ saving'.op = "save"
      /\ saving'.text = saving.text /\ saving'.serial = saving.serial
  <2>1. saving' \in Editor!Call
    BY <1>1, <1>4, EditorFields DEF Editor!Call
  <2> QED
    BY <1>1, <2>1, EditorFields, NoneAssumption DEF Editor!Call
<1>10. Dated' /\ Saving'
  BY <1>1, <1>2, <1>3, <1>4, <1>5, <1>9, EditorFields DEF EditorInv, Dated, Saving
<1>11. Telling' /\ Restoring'
  BY <1>1, <1>2, <1>9 DEF EditorInv, Telling, Stale, Restoring
<1>12. Only'
  BY <1>1, <1>2, <1>5, <1>9 DEF EditorInv, Only
<1>13. restoring' \in Editor!Restoration \union {None}
  BY <1>2
<1> QED
  BY <1>8, <1>9, <1>10, <1>11, <1>12, <1>13, ServerStepKeeps

LEMMA RestorationServedKeeps ==
  ASSUME EditorInv, Editor!ServeRestoration,
         UNCHANGED <<data, seen, dirty, serial, wanted, excused, role, record, busy, failed,
                     confirm, timer, uploading, lostFirst, saving>>
  PROVE  EditorInv'
<1> PICK i : i = restoring.id
  OBVIOUS
<1> DEFINE d == Editor!Append1(docs[i], restoring.text)
           r == Editor!RecordOf(d, i)
<1>1. /\ restoring # None /\ restoring.at = "sent" /\ Editor!Store(i, d)
      /\ Editor!Current(restoring)
      /\ restoring' = [restoring EXCEPT !.at = "done", !.result = r]
  BY DEF Editor!ServeRestoration
<1>2. /\ About(restoring) /\ restoring.version = Versions(i) /\ i \in 1 .. Len(docs)
      /\ i \in 1 .. 2 /\ record # None /\ record.id = i /\ record.version = restoring.version
      /\ Versions(i) \in Nat /\ docs[i] \in Editor!Doc /\ docs[i].status # "deleted"
      /\ restoring.text \in Editor!Texts /\ restoring.text <= serial
  <2>1. About(restoring) /\ restoring.version = Versions(i) /\ docs[i].status # "deleted"
    BY <1>1 DEF EditorInv, Restoring, Editor!Current, Versions
  <2> QED
    BY <1>1, <2>1, EditorFields DEF About
<1>3. /\ d \in Editor!Doc /\ d.history = Append(docs[i].history, restoring.text)
      /\ d.status # "deleted"
  BY <1>2, VersionAdded
<1> HIDE DEF d
<1>4. /\ Grows /\ Len(docs') = Len(docs)
      /\ Versions(i)' = Versions(i) + 1 /\ Versions(i) + 1 \in 1 .. MaxVersion
      /\ docs'[i].history[Versions(i) + 1] = restoring.text
      /\ Len(d.history) = Versions(i) + 1
  <2>1. docs[i].history \in Seq(Editor!Texts)
    BY <1>2 DEF Editor!Doc
  <2> QED
    BY <1>1, <1>2, <1>3, <2>1, StoringGrows DEF Versions
<1>5. r \in Editor!Record /\ r # None /\ r.id = i /\ r.version = Versions(i) + 1
  BY <1>2, <1>3, <1>4, RecordIsTyped
<1> HIDE DEF r
<1>6. /\ restoring' \in Editor!Restoration /\ restoring'.at = "done"
      /\ restoring'.result = r /\ restoring'.id = i /\ restoring'.version = restoring.version
      /\ restoring'.text = restoring.text /\ restoring'.serial = restoring.serial
  BY <1>1, <1>5, EditorFields DEF Editor!Restoration
<1>7. Dated'
  BY <1>1, <1>6, EditorFields DEF EditorInv, Dated
<1>8. saving # None => saving.at # "done"
  <2> SUFFICES ASSUME saving # None, saving.at = "done" PROVE FALSE
    OBVIOUS
  <2>1. saving.id # 0 /\ About(saving) /\ Served(saving)
    BY <1>2 DEF EditorInv, Saving
  <2> QED
    BY <1>2, <2>1 DEF About, Served
<1>9. Restoring'
  <2>1. About(restoring)' /\ Served(restoring)'
    BY <1>2, <1>4, <1>5, <1>6 DEF About, Served
  <2> QED
    BY <1>4, <1>5, <1>6, <1>8, <2>1 DEF Restoring
<1>10. Only'
  BY <1>2, <1>4 DEF EditorInv, Only
<1>11. saving' \in Editor!Call \union {None}
  BY DEF EditorInv, Editor!TypeOK
<1> QED
  BY <1>4, <1>6, <1>7, <1>9, <1>10, <1>11, CallStays, ServerStepKeeps

LEMMA ServerKeepsEditor ==
  ASSUME EditorInv, Editor!Serve PROVE EditorInv'
<1> USE DEF Editor!form
<1>1. UNCHANGED <<data, seen, dirty, serial, wanted, excused, role, record, busy, failed,
                  confirm, timer, uploading, lostFirst>>
  BY DEF Editor!Serve
<1>2. CASE Editor!ServeFirstSave /\ UNCHANGED restoring
  BY <1>1, <1>2, FirstSaveKeeps
<1>3. CASE Editor!ServeRestoration /\ UNCHANGED saving
  BY <1>1, <1>3, RestorationServedKeeps
<1>4. ASSUME Editor!Current(saving), saving # None, saving.at = "sent"
      PROVE  /\ docs[saving.id] \in Editor!Doc /\ docs[saving.id].history # <<>>
             /\ docs[saving.id].status # "deleted"
             /\ saving.id \in 1 .. Len(docs)
             /\ Editor!Draft(docs[saving.id]) <= serial
             /\ Editor!Draft(docs[saving.id]) = docs[saving.id].history[saving.version]
  <2>1. saving.id # 0 /\ docs[saving.id].status # "deleted"
    BY <1>4 DEF Editor!Current
  <2>2. About(saving)
    BY <1>4, <2>1 DEF EditorInv, Saving
  <2>3. saving.id \in 1 .. Len(docs)
    BY <2>2, EditorFields DEF About
  <2>4. docs[saving.id] \in Editor!Doc /\ Versions(saving.id) \in 1 .. MaxVersion
    BY <2>3, EditorFields DEF EditorInv, Stored
  <2>5. docs[saving.id].history # <<>>
    BY <2>4 DEF Versions, Editor!Doc
  <2>6. Editor!Draft(docs[saving.id]) <= serial
    BY <2>3, <2>4 DEF EditorInv, Stored, Versions, Editor!Draft
  <2> QED
    BY <1>4, <2>1, <2>3, <2>4, <2>5, <2>6 DEF Editor!Draft, Editor!Current
<1>5. CASE Editor!ServeSave /\ UNCHANGED restoring
  <2> DEFINE d == Editor!Append1(docs[saving.id], saving.text)
  <2>1. /\ saving # None /\ saving.op = "save" /\ saving.at = "sent" /\ Editor!Current(saving)
        /\ Editor!Store(saving.id, d)
        /\ saving' = [saving EXCEPT !.at = "done", !.result = Editor!RecordOf(d, saving.id)]
    BY <1>5 DEF Editor!ServeSave
  <2>2. saving.text \in Editor!Texts /\ saving.text <= serial
    BY <2>1, EditorFields
  <2>3. /\ d \in Editor!Doc /\ d.history = Append(docs[saving.id].history, saving.text)
        /\ d.status # "deleted"
    BY <1>4, <2>1, <2>2, VersionAdded
  <2> HIDE DEF d
  <2>4. saving' = [saving EXCEPT !.at = "done",
                     !.result = IF saving.op = "delete" THEN None
                                ELSE Editor!RecordOf(d, saving.id)]
    BY <2>1
  <2> QED
    BY <1>1, <1>5, <2>1, <2>2, <2>3, <2>4, AnswerKeeps
<1>6. CASE Editor!ServeTransition /\ UNCHANGED restoring
  <2> DEFINE old == docs[saving.id]
             after == Editor!After(saving.op, old)
             t == Editor!Draft(old)
             d == Editor!Append1(after, t)
  <2>1. /\ saving # None /\ saving.op # "save" /\ saving.at = "sent" /\ Editor!Current(saving)
        /\ Editor!Store(saving.id, d)
        /\ saving' = [saving EXCEPT !.at = "done",
                        !.result = IF saving.op = "delete" THEN None
                                   ELSE Editor!RecordOf(d, saving.id)]
    BY <1>6 DEF Editor!ServeTransition
  <2>2. saving.op \in Editor!Actions
    BY <2>1, EditorFields DEF Editor!Call
  <2>3. /\ t \in Editor!Texts /\ after \in Editor!Doc /\ after.history = old.history
        /\ saving.op # "delete" => after.status # "deleted"
    BY <1>4, <2>1, <2>2, TransitionsKeepTexts
  <2>4. /\ d \in Editor!Doc /\ d.history = Append(docs[saving.id].history, t)
        /\ d.status = after.status
    BY <2>3, VersionAdded
  <2>5. t <= serial /\ t = docs[saving.id].history[saving.version]
    BY <1>4, <2>1
  <2> HIDE DEF d, t, after
  <2> QED
    BY <1>1, <1>6, <2>1, <2>3, <2>4, <2>5, AnswerKeeps
<1>7. CASE Editor!ServeRefusal /\ UNCHANGED <<docs, restoring>>
  <2>1. /\ saving # None /\ saving.at = "sent" /\ saving' = [saving EXCEPT !.at = "refused"]
        /\ saving \in Editor!Call
    BY <1>7, EditorFields DEF Editor!ServeRefusal
  <2>2. /\ saving' \in Editor!Call /\ saving' # None /\ saving'.at = "refused"
        /\ saving'.id = saving.id /\ saving'.version = saving.version
        /\ saving'.op = saving.op /\ saving'.text = saving.text /\ saving'.serial = saving.serial
    <3>1. saving' \in Editor!Call
      BY <2>1 DEF Editor!Call
    <3> QED
      BY <2>1, <3>1, NoneAssumption DEF Editor!Call
  <2>3. Grows
    <3>1. docs' \in Seq(Editor!Doc) /\ \A k \in 1 .. Len(docs) : Versions(k) \in Nat
      BY <1>7, EditorFields
    <3>2. Stored'
      BY <1>1, <1>7 DEF EditorInv, Stored, Versions
    <3> QED
      BY <1>1, <1>7, <3>1, <3>2 DEF Grows, Versions
  <2>4. Dated' /\ Only'
    BY <1>1, <1>7, <2>1, <2>2 DEF EditorInv, Dated, Only
  <2>5. Saving' /\ Telling'
    BY <1>1, <1>7, <2>1, <2>2
       DEF EditorInv, Saving, Telling, Stale, About, Versions
  <2>6. Restoring'
    BY <1>7, <2>2, <2>3, RestorationStays
  <2>7. restoring' \in Editor!Restoration \union {None}
    BY <1>7 DEF EditorInv, Editor!TypeOK
  <2> QED
    BY <2>2, <2>3, <2>4, <2>5, <2>6, <2>7, ServerStepKeeps
<1> QED
  BY <1>2, <1>3, <1>5, <1>6, <1>7 DEF Editor!Serve

LEMMA EditorKeeps == ASSUME EditorInv, Editor!Next PROVE EditorInv'
<1>1. CASE Editor!EditContent \/ Editor!EditSettings \/ Editor!EditCover
  BY <1>1, TypingKeeps DEF Editor!EditContent, Editor!EditSettings, Editor!EditCover
<1>2. CASE \/ Editor!CoverUpload \/ Editor!CoverUploaded \/ Editor!CoverFailed
           \/ Editor!Render \/ Editor!Cancel
           \/ \E a \in Editor!Actions : Editor!AskConfirmation(a)
  BY <1>2, TypingKeeps
<1>3. CASE \/ Editor!ClickSave \/ Editor!Autosave \/ Editor!Confirm
           \/ \E a \in Editor!Actions : Editor!ClickTransition(a)
  BY <1>3, StartsKeep
<1>4. CASE Editor!Refused \/ Editor!Lost
  BY <1>4, FailuresKeep
<1> QED
  BY <1>1, <1>2, <1>3, <1>4, SavedKeeps, TransitionedKeeps, RestoreKeeps, RestoredKeeps,
     RestoreFailedKeeps, ServerKeepsEditor, SomebodyElseKeeps DEF Editor!Next

(***************************************************************************)
(* The community page.                                                     *)
(***************************************************************************)

\* What a call is about; a push, what was confirmed.
Asked ==
  push # None =>
    /\ push.op \in {"preview", "push"} => push.post \in Posts
    /\ (push.op = "preview" /\ push.at = "done") => push.answer \in Community!Preview
    /\ push.op = "push" => <<push.post, push.snapshot>> \in accepted
    /\ push.op = "status" => push.target \in Community!Statuses

PanelInv == Community!TypeOK /\ Community!PushedAsConfirmed /\ Asked

LEMMA PanelBegins == Community!Init => PanelInv
BY BoundsAssumption DEF Community!Init, PanelInv, Community!TypeOK, Community!Snapshots,
   Community!Statuses, Community!Chosen, Community!PushedAsConfirmed, Asked

LEMMA PanelRests == ASSUME PanelInv, UNCHANGED communityVars PROVE PanelInv'
<1>1. /\ public' = public /\ published' = published /\ confirmed' = confirmed
      /\ application' = application /\ jobs' = jobs /\ editorRole' = editorRole
      /\ selected' = selected /\ preview' = preview /\ removal' = removal /\ push' = push
      /\ accepted' = accepted
  BY DEF communityVars
<1> QED
  BY <1>1 DEF PanelInv, Community!TypeOK, Community!PushedAsConfirmed, Asked

LEMMA SameCardinality == \A S : Community!Cardinality(S) = Cardinality(S)
BY Zenon DEF Community!Cardinality, Cardinality

\* The page: only the mail's own dialog confirms anything, and calls start.
LEMMA PageKeepsPanel ==
  ASSUME PanelInv,
         \/ \E p \in Posts : Community!Select(p)
         \/ Community!Prepare \/ Community!Prepared \/ Community!CancelPush \/ Community!Push
         \/ \E s \in Community!Chosen : Community!ChooseStatus(s)
         \/ \E x \in Community!Removals : Community!AskRemoval(x)
         \/ Community!CancelRemoval \/ Community!Remove \/ Community!Answered
         \/ Community!Failed
  PROVE  PanelInv'
<1> USE DEF PanelInv, Community!server
<1>1. ASSUME NEW p \in Posts, Community!Select(p) PROVE PanelInv'
  BY <1>1 DEF Community!Select, Community!TypeOK, Community!PushedAsConfirmed, Asked
<1>2. ASSUME NEW op \in {"preview", "push", "status", "remove"}, NEW p \in Posts \union {None},
             NEW n \in Community!Snapshots,
             NEW t \in Community!Removals \union Community!Statuses \union {None},
             Community!Start(op, p, n, t),
             op \in {"preview", "push"} => p \in Posts,
             op = "push" => <<p, n>> \in accepted',
             op = "status" => t \in Community!Statuses,
             accepted \subseteq accepted', accepted' \subseteq Posts \X Community!Snapshots,
             preview' \in Community!Preview \union {None},
             removal' \in Community!Removals \union {None},
             UNCHANGED <<public, published, confirmed, application, jobs, editorRole, selected>>
      PROVE  PanelInv'
  <2>1. push' = [op |-> op, post |-> p, snapshot |-> n, target |-> t,
                 at |-> "sent", answer |-> None]
    BY <1>2 DEF Community!Start
  <2>2. push' \in Community!Call
    BY <2>1 DEF Community!Call
  <2> QED
    BY <1>2, <2>1, <2>2 DEF Community!TypeOK, Community!PushedAsConfirmed, Asked
<1>3. CASE Community!Prepare
  BY <1>2, <1>3, BoundsAssumption DEF Community!Prepare, Community!TypeOK, Community!Snapshots
<1>4. CASE Community!Prepared
  BY <1>4 DEF Community!Prepared, Community!Busy, Community!TypeOK,
     Community!PushedAsConfirmed, Asked
<1>5. CASE Community!CancelPush \/ Community!CancelRemoval
  BY <1>5 DEF Community!CancelPush, Community!CancelRemoval, Community!TypeOK,
     Community!PushedAsConfirmed, Asked
<1>6. CASE Community!Push
  <2>1. preview.post \in Posts /\ preview.snapshot \in Community!Snapshots
    BY <1>6 DEF Community!Push, Community!TypeOK, Community!Preview
  <2>2. /\ Community!Start("push", preview.post, preview.snapshot, None)
        /\ <<preview.post, preview.snapshot>> \in accepted'
        /\ accepted \subseteq accepted'
        /\ accepted' \subseteq Posts \X Community!Snapshots
        /\ preview' \in Community!Preview \union {None}
        /\ removal' \in Community!Removals \union {None}
    BY <1>6, <2>1 DEF Community!Push, Community!TypeOK
  <2> QED
    BY <1>2, <1>6, <2>1, <2>2 DEF Community!Push
<1>7. ASSUME NEW t \in Community!Chosen, Community!ChooseStatus(t)
      PROVE  PanelInv'
  <2>1. 0 \in Community!Snapshots /\ t \in Community!Statuses
    BY BoundsAssumption DEF Community!Snapshots, Community!Statuses, Community!Chosen
  <2>2. /\ Community!Start("status", None, 0, t)
        /\ accepted \subseteq accepted'
        /\ accepted' \subseteq Posts \X Community!Snapshots
        /\ preview' \in Community!Preview \union {None}
        /\ removal' \in Community!Removals \union {None}
    BY <1>7 DEF Community!ChooseStatus, Community!TypeOK
  <2> QED
    BY <1>2, <1>7, <2>1, <2>2 DEF Community!ChooseStatus
<1>8. ASSUME NEW x \in Community!Removals, Community!AskRemoval(x) PROVE PanelInv'
  BY <1>8 DEF Community!AskRemoval, Community!TypeOK, Community!PushedAsConfirmed, Asked
<1>9. CASE Community!Remove
  <2>1. 0 \in Community!Snapshots /\ removal \in Community!Removals
    BY <1>9, BoundsAssumption DEF Community!Remove, Community!TypeOK, Community!Snapshots
  <2>2. /\ Community!Start("remove", None, 0, removal)
        /\ accepted \subseteq accepted'
        /\ accepted' \subseteq Posts \X Community!Snapshots
        /\ preview' \in Community!Preview \union {None}
        /\ removal' \in Community!Removals \union {None}
    BY <1>9 DEF Community!Remove, Community!TypeOK
  <2> QED
    BY <1>2, <1>9, <2>1, <2>2 DEF Community!Remove
<1>10. CASE Community!Answered \/ Community!Failed
  BY <1>10 DEF Community!Answered, Community!Failed, Community!TypeOK,
     Community!PushedAsConfirmed, Asked
<1> QED
  BY <1>1, <1>3, <1>4, <1>5, <1>6, <1>7, <1>8, <1>9, <1>10

\* The server's part of a call: what it is about stays.
LEMMA StageOfCall ==
  ASSUME PanelInv, push # None, NEW at \in {"checked", "done", "refused"},
         Community!Finish(at), at = "done" => push.op # "preview",
         UNCHANGED accepted
  PROVE  push' \in Community!Call /\ Asked'
<1>1. push \in Community!Call
  BY DEF PanelInv, Community!TypeOK
<1>2. /\ push'.op = push.op /\ push'.post = push.post /\ push'.snapshot = push.snapshot
      /\ push'.target = push.target /\ push'.at = at /\ push' \in Community!Call
  BY <1>1 DEF Community!Finish, Community!Call
<1> QED
  BY <1>2 DEF PanelInv, Asked

LEMMA ServerKeepsPanel ==
  ASSUME PanelInv,
         \/ Community!PreviewManualPush \/ Community!SendManualPush
         \/ Community!QueuePostSnapshot \/ Community!ServeStatus \/ Community!ServeRemoval
  PROVE  PanelInv'
<1> USE DEF PanelInv, Community!server, Community!page, Community!Serving, Community!Busy
<1>1. push # None /\ push \in Community!Call
      /\ UNCHANGED <<public, published, editorRole, selected, preview, removal, accepted>>
  BY DEF Community!PreviewManualPush, Community!SendManualPush, Community!QueuePostSnapshot,
         Community!ServeStatus, Community!ServeRemoval, Community!TypeOK
<1>2. CASE Community!PreviewManualPush
  <2>1. CASE public[push.post] = 0
    BY <1>1, <1>2, <2>1, StageOfCall DEF Community!PreviewManualPush, Community!TypeOK,
       Community!PushedAsConfirmed
  <2>2. CASE public[push.post] # 0
    <3>1. push.post \in Posts /\ push.op = "preview"
      BY <1>1, <1>2 DEF Community!PreviewManualPush, Asked
    <3>2. Community!Cardinality(Community!Eligible(push.post)) \in Nat
      BY RowsAssumption, FS_Subset, FS_CardinalityType, SameCardinality
         DEF Community!Eligible, Community!TypeOK
    <3> DEFINE shown1 == [post |-> push.post, snapshot |-> public[push.post],
                          count |-> Community!Cardinality(Community!Eligible(push.post))]
    <3>3. shown1 \in Community!Preview
      BY <3>1, <3>2 DEF Community!Preview, Community!TypeOK
    <3>4. push' = [push EXCEPT !.at = "done", !.answer = shown1]
      BY <1>2, <2>2 DEF Community!PreviewManualPush
    <3> HIDE DEF shown1
    <3>5. /\ push' \in Community!Call /\ push'.op = "preview" /\ push'.post = push.post
          /\ push'.answer = shown1
      BY <1>1, <3>1, <3>3, <3>4 DEF Community!Call
    <3> QED
      BY <1>1, <1>2, <3>1, <3>3, <3>5 DEF Community!PreviewManualPush, Community!TypeOK,
         Community!PushedAsConfirmed, Asked
  <2> QED
    BY <2>1, <2>2
<1>3. CASE Community!SendManualPush
  BY <1>1, <1>3, StageOfCall DEF Community!SendManualPush, Community!TypeOK,
     Community!PushedAsConfirmed
<1>4. CASE Community!QueuePostSnapshot
  <2>1. CASE public[push.post] # push.snapshot
    BY <1>1, <1>4, <2>1, StageOfCall DEF Community!QueuePostSnapshot, Community!TypeOK,
       Community!PushedAsConfirmed
  <2>2. CASE public[push.post] = push.snapshot
    <3> DEFINE new == {[post |-> push.post, to |-> s, snapshot |-> push.snapshot] :
                         s \in Community!Eligible(push.post)}
    <3>1. /\ push.op = "push" /\ push.post \in Posts /\ push.snapshot \in Community!Snapshots
          /\ <<push.post, push.snapshot>> \in accepted
      BY <1>1, <1>4, <2>2 DEF Community!QueuePostSnapshot, Asked, Community!TypeOK
    <3>2. jobs' = jobs \union new
      BY <1>4, <2>2 DEF Community!QueuePostSnapshot
    <3>3. push' \in Community!Call /\ Asked'
      BY <1>1, <1>4, <2>2, <3>1, StageOfCall DEF Community!QueuePostSnapshot
    <3>4. \A j \in new : /\ j \in [post : Posts, to : Subscribers, snapshot : Community!Snapshots]
                         /\ j.post = push.post /\ j.snapshot = push.snapshot
                         /\ \A k \in jobs : ~(k.post = j.post /\ k.to = j.to)
      BY <3>1 DEF Community!Eligible, Community!TypeOK
    <3>5. \A j, k \in new : j.to = k.to => j = k
      OBVIOUS
    <3>6. Community!TypeOK'
      BY <1>1, <1>4, <3>2, <3>3, <3>4 DEF Community!QueuePostSnapshot, Community!TypeOK
    <3> HIDE DEF new
    <3>7. Community!PushedAsConfirmed'
      BY <1>1, <3>1, <3>2, <3>4, <3>5 DEF Community!PushedAsConfirmed
    <3> QED
      BY <3>3, <3>6, <3>7
  <2> QED
    BY <2>1, <2>2
<1>5. CASE Community!ServeStatus
  <2>1. application' \in Community!Statuses
    BY <1>1, <1>5 DEF Community!ServeStatus, Asked, Community!TypeOK
  <2> QED
    BY <1>1, <1>5, <2>1, StageOfCall DEF Community!ServeStatus, Community!TypeOK,
       Community!PushedAsConfirmed
<1>6. CASE Community!ServeRemoval
  <2>1. application' \in Community!Statuses /\ confirmed' \subseteq Subscribers
    BY <1>6 DEF Community!ServeRemoval, Community!TypeOK, Community!Statuses, Community!Chosen
  <2> QED
    BY <1>1, <1>6, <2>1, StageOfCall DEF Community!ServeRemoval, Community!TypeOK,
       Community!PushedAsConfirmed
<1> QED
  BY <1>2, <1>3, <1>4, <1>5, <1>6

LEMMA PanelKeeps == ASSUME PanelInv, Community!Next PROVE PanelInv'
<1>1. ASSUME NEW p \in Posts, Community!Publish(p) PROVE PanelInv'
  <2>1. published[p] + 1 \in Community!Snapshots
    BY <1>1, BoundsAssumption DEF Community!Publish, PanelInv, Community!TypeOK,
       Community!Snapshots
  <2> QED
    BY <1>1, <2>1 DEF Community!Publish, Community!page, PanelInv, Community!TypeOK,
       Community!PushedAsConfirmed, Asked
<1>2. ASSUME NEW p \in Posts, Community!Unpublish(p) PROVE PanelInv'
  BY <1>2, BoundsAssumption DEF Community!Unpublish, Community!page, PanelInv,
     Community!TypeOK, Community!Snapshots, Community!PushedAsConfirmed, Asked
<1>3. ASSUME Community!ConfirmApplication PROVE PanelInv'
  BY <1>3 DEF Community!ConfirmApplication, Community!page, PanelInv, Community!TypeOK,
     Community!Statuses, Community!Chosen, Community!PushedAsConfirmed, Asked
<1> QED
  BY <1>1, <1>2, <1>3, PageKeepsPanel, ServerKeepsPanel DEF Community!Next

(***************************************************************************)
(* The special pages.                                                      *)
(***************************************************************************)

Version(e) == Special!Displayed[editor[e].page].version
Draft(e) == Special!Displayed[editor[e].page].draft

\* The lock, what its holder has read, and what an editor knows of his page.
Writing(e) ==
  /\ holder = e <=> call[e].at \in {"locked", "read"}
  /\ call[e].at = "read" => call[e].snapshot = Special!Displayed /\ row # Malformed
  /\ editor[e].version <= Version(e)
  /\ (~editor[e].dirty /\ row # Malformed /\ editor[e].version = Version(e))
       => editor[e].draft = Draft(e)
  /\ (call[e].op = "publish" /\ call[e].at # "none") => ~editor[e].dirty
  /\ call[e].at = "done" =>
       /\ row # Malformed /\ editor[e].version < Version(e)
       /\ (Version(e) = editor[e].version + 1 /\ (call[e].op = "save" \/ ~editor[e].dirty))
            => editor[e].draft = Draft(e)

SpecialInv == Special!TypeOK /\ \A e \in Editors : Writing(e)

Screens == [page : FixedPages, version : 0 .. MaxPageVersion, draft : Bodies, dirty : BOOLEAN]
Calls == [at : Special!Stages, publish : BOOLEAN, op : {"save", "publish"},
          snapshot : Special!Rows \union {None}]

LEMMA DisplayedIsWhole == ASSUME Special!TypeOK PROVE Special!Displayed \in Special!Rows
BY RowsAssumption, BoundsAssumption DEF Special!TypeOK, Special!Displayed, Special!Absent,
   Special!Rows, Special!Record

LEMMA RowIsDisplayed ==
  ASSUME NEW r \in Special!Rows, row' = r PROVE Special!Displayed' = r /\ row' # Malformed
BY NoneAssumption DEF Special!Displayed

LEMMA NobodyCalls == Special!NoCall \in Calls
BY DEF Special!NoCall, Calls, Special!Stages

LEMMA SpecialBegins == Special!Init => SpecialInv
<1> SUFFICES ASSUME Special!Init PROVE SpecialInv
  OBVIOUS
<1>1. Special!Displayed = Special!Absent /\ Special!Absent \in Special!Rows
  BY RowsAssumption, BoundsAssumption DEF Special!Init, Special!Displayed, Special!Absent,
     Special!Rows, Special!Record
<1>2. \A k \in FixedPages : Special!Opened(k) \in Screens
  BY <1>1, BoundsAssumption DEF Special!Opened, Screens, Special!Rows, Special!Record
<1>3. Special!TypeOK
  BY <1>2, NobodyCalls DEF Special!Init, Special!TypeOK, Screens, Calls
<1>4. ASSUME NEW e \in Editors PROVE Writing(e)
  <2> PICK k \in FixedPages : editor[e] = Special!Opened(k)
    BY DEF Special!Init
  <2>1. call[e].at = "none" /\ holder # e
    BY NoneAssumption DEF Special!Init, Special!NoCall
  <2>2. editor[e].version = Version(e) /\ editor[e].draft = Draft(e) /\ Version(e) \in Nat
    BY <1>1 DEF Special!Opened, Version, Draft, Special!Rows, Special!Record
  <2> QED
    BY <2>1, <2>2 DEF Writing
<1> QED
  BY <1>3, <1>4 DEF SpecialInv

\* An editor whose page, call and lock are as they were, with the same row.
LEMMA OtherRests ==
  ASSUME NEW f \in Editors, Writing(f), editor'[f] = editor[f], call'[f] = call[f],
         row' = row, holder' = f <=> holder = f
  PROVE  Writing(f)'
<1>1. Special!Displayed' = Special!Displayed
  BY DEF Special!Displayed, Special!Absent
<1>2. Version(f)' = Version(f) /\ Draft(f)' = Draft(f)
  BY <1>1 DEF Version, Draft
<1> QED
  BY <1>1, <1>2 DEF Writing

LEMMA SpecialRests == ASSUME SpecialInv, UNCHANGED specialVars PROVE SpecialInv'
<1>1. row' = row /\ holder' = holder /\ editor' = editor /\ call' = call
  BY DEF specialVars
<1>2. Special!TypeOK'
  BY <1>1 DEF SpecialInv, Special!TypeOK
<1>3. ASSUME NEW f \in Editors PROVE Writing(f)'
  BY <1>1, OtherRests DEF SpecialInv
<1> QED
  BY <1>2, <1>3 DEF SpecialInv

\* One editor goes on; the row stays.
LEMMA OneEditorMoves ==
  ASSUME SpecialInv, NEW e \in Editors, NEW m \in Screens, NEW c \in Calls,
         row' = row, editor' = [editor EXCEPT ![e] = m], call' = [call EXCEPT ![e] = c],
         holder' = holder \/ {holder, holder'} \subseteq {e, None},
         Writing(e)'
  PROVE  SpecialInv'
<1>1. Special!TypeOK'
  BY DEF SpecialInv, Special!TypeOK, Screens, Calls
<1>2. ASSUME NEW f \in Editors \ {e} PROVE Writing(f)'
  <2>1. editor'[f] = editor[f] /\ call'[f] = call[f]
    BY DEF SpecialInv, Special!TypeOK
  <2>2. holder' = f <=> holder = f
    BY NoneAssumption
  <2> QED
    BY <2>1, <2>2, OtherRests DEF SpecialInv
<1> QED
  BY <1>1, <1>2 DEF SpecialInv

LEMMA ScreenStepsKeep ==
  ASSUME SpecialInv, NEW e \in Editors,
         \/ Special!Open(e) \/ Special!Type(e)
         \/ \E publish \in BOOLEAN : Special!Save(e, publish)
         \/ Special!Saved(e) \/ Special!Published(e) \/ Special!Failed(e)
  PROVE  SpecialInv'
<1> USE DEF Special!Idle
<1>1. /\ row' = row /\ holder' = holder /\ Writing(e) /\ Special!Displayed \in Special!Rows
      /\ Special!Displayed' = Special!Displayed
      /\ editor[e] \in Screens /\ call[e] \in Calls
      /\ editor \in [Editors -> Screens] /\ call \in [Editors -> Calls]
  <2>1. row' = row /\ holder' = holder
    BY DEF Special!Open, Special!Type, Special!Save, Special!Saved, Special!Published,
       Special!Failed
  <2>2. Special!Displayed' = Special!Displayed
    BY <2>1 DEF Special!Displayed, Special!Absent
  <2> QED
    BY <2>1, <2>2, DisplayedIsWhole DEF SpecialInv, Special!TypeOK, Screens, Calls
<1>2. Version(e) \in 0 .. MaxPageVersion /\ Draft(e) \in Bodies
  BY <1>1 DEF Version, Draft, Special!Rows, Special!Record, Screens
<1>3. ASSUME NEW m \in Screens, NEW c \in Calls,
             editor' = [editor EXCEPT ![e] = m], call' = [call EXCEPT ![e] = c],
             c.at \in {"none", "sent"}, holder # e,
             m.version <= Special!Displayed[m.page].version,
             (~m.dirty /\ row # Malformed /\ m.version = Special!Displayed[m.page].version)
               => m.draft = Special!Displayed[m.page].draft,
             c.op = "publish" => ~m.dirty
      PROVE  SpecialInv'
  <2>1. editor'[e] = m /\ call'[e] = c
    BY <1>1, <1>3
  <2>2. Writing(e)'
    BY <1>1, <1>3, <2>1 DEF Writing, Version, Draft
  <2> QED
    BY <1>1, <1>3, <2>2, OneEditorMoves
<1>4. editor = [editor EXCEPT ![e] = editor[e]] /\ call = [call EXCEPT ![e] = call[e]]
  BY <1>1
<1>5. holder # e
  BY <1>1 DEF Special!Open, Special!Type, Special!Save, Special!Saved, Special!Published,
       Special!Failed, Writing
<1>6. Special!NoCall \in Calls /\ Special!NoCall.at = "none" /\ Special!NoCall.op = "save"
  BY NobodyCalls DEF Special!NoCall
<1>7. CASE Special!Open(e)
  <2> PICK k \in FixedPages : editor' = [editor EXCEPT ![e] = Special!Opened(k)]
    BY <1>7 DEF Special!Open
  <2>1. /\ Special!Opened(k) \in Screens /\ Special!Opened(k).page = k
        /\ Special!Opened(k).version = Special!Displayed[k].version
        /\ Special!Opened(k).draft = Special!Displayed[k].draft
        /\ Special!Displayed[k].version \in Nat
    BY <1>1 DEF Special!Opened, Screens, Special!Rows, Special!Record
  <2>2. call' = [call EXCEPT ![e] = call[e]] /\ call[e].at = "none"
    BY <1>4, <1>7 DEF Special!Open
  <2>3. Writing(e)'
    <3>1. editor'[e] = Special!Opened(k) /\ call'[e] = call[e]
      BY <1>1, <2>2
    <3> QED
      BY <1>1, <1>5, <2>1, <2>2, <3>1 DEF Writing, Version, Draft
  <2> QED
    BY <1>1, <2>1, <2>2, <2>3, OneEditorMoves
<1>8. CASE Special!Type(e)
  <2> PICK t \in Bodies : editor' = [editor EXCEPT ![e].draft = t, ![e].dirty = TRUE]
    BY <1>8 DEF Special!Type
  <2> DEFINE m == [editor[e] EXCEPT !.draft = t, !.dirty = TRUE]
  <2>1. m \in Screens /\ editor' = [editor EXCEPT ![e] = m]
    BY <1>1 DEF Screens
  <2>2. m.version = editor[e].version /\ m.page = editor[e].page /\ m.dirty
    BY <1>1 DEF Screens
  <2> HIDE DEF m
  <2>3. call' = [call EXCEPT ![e] = call[e]] /\ call[e].at = "none"
    BY <1>4, <1>8 DEF Special!Type
  <2>4. Writing(e)'
    <3>1. editor'[e] = m /\ call'[e] = call[e]
      BY <1>1, <2>1, <2>3
    <3> QED
      BY <1>1, <1>5, <2>2, <2>3, <3>1 DEF Writing, Version, Draft
  <2> QED
    BY <1>1, <2>1, <2>3, <2>4, OneEditorMoves
<1>9. ASSUME NEW publish \in BOOLEAN, Special!Save(e, publish) PROVE SpecialInv'
  <2> DEFINE c == [Special!NoCall EXCEPT !.at = "sent", !.publish = publish]
  <2>1. c \in Calls /\ c.at = "sent" /\ c.op = "save"
    BY DEF Special!NoCall, Calls, Special!Stages
  <2>2. call' = [call EXCEPT ![e] = c] /\ editor' = [editor EXCEPT ![e] = editor[e]]
    BY <1>4, <1>9 DEF Special!Save
  <2> HIDE DEF c
  <2> QED
    BY <1>1, <1>3, <1>5, <2>1, <2>2 DEF Writing, Version, Draft
<1>10. CASE Special!Saved(e)
  <2> DEFINE m == [editor[e] EXCEPT !.version = editor[e].version + 1, !.dirty = FALSE]
             c == IF call[e].publish
                    THEN [Special!NoCall EXCEPT !.at = "sent", !.op = "publish"]
                    ELSE Special!NoCall
  <2>1. /\ editor[e].version + 1 <= Version(e) /\ call[e].op = "save" /\ row # Malformed
        /\ editor[e].version + 1 = Version(e) => editor[e].draft = Draft(e)
    BY <1>1, <1>2, <1>10 DEF Special!Saved, Writing, Screens
  <2>2. m \in Screens
    <3>1. editor[e].version + 1 \in 0 .. MaxPageVersion
      BY <1>1, <1>2, <2>1, BoundsAssumption DEF Screens
    <3> QED
      BY <1>1, <3>1 DEF Screens
  <2>3. editor' = [editor EXCEPT ![e] = m] /\ call' = [call EXCEPT ![e] = c]
    BY <1>1, <1>10 DEF Special!Saved, Screens
  <2>4. c \in Calls /\ c.at \in {"none", "sent"}
    BY <1>6 DEF Special!NoCall, Calls, Special!Stages
  <2>5. /\ m.version = editor[e].version + 1 /\ m.page = editor[e].page
        /\ m.draft = editor[e].draft /\ ~m.dirty
    BY <1>1 DEF Screens
  <2> HIDE DEF m, c
  <2> QED
    BY <1>3, <1>5, <2>1, <2>2, <2>3, <2>4, <2>5 DEF Version, Draft
<1>11. CASE Special!Published(e)
  <2> DEFINE m == [editor[e] EXCEPT !.version = editor[e].version + 1]
  <2>1. /\ editor[e].version + 1 <= Version(e) /\ row # Malformed
        /\ (editor[e].version + 1 = Version(e) /\ ~editor[e].dirty)
             => editor[e].draft = Draft(e)
    BY <1>1, <1>2, <1>11 DEF Special!Published, Writing, Screens
  <2>2. m \in Screens
    <3>1. editor[e].version + 1 \in 0 .. MaxPageVersion
      BY <1>1, <1>2, <2>1, BoundsAssumption DEF Screens
    <3> QED
      BY <1>1, <3>1 DEF Screens
  <2>3. editor' = [editor EXCEPT ![e] = m] /\ call' = [call EXCEPT ![e] = Special!NoCall]
    BY <1>1, <1>11 DEF Special!Published, Screens
  <2>5. /\ m.version = editor[e].version + 1 /\ m.page = editor[e].page
        /\ m.draft = editor[e].draft /\ m.dirty = editor[e].dirty
    BY <1>1 DEF Screens
  <2> HIDE DEF m
  <2> QED
    BY <1>3, <1>5, <1>6, <2>1, <2>2, <2>3, <2>5 DEF Version, Draft
<1>12. CASE Special!Failed(e)
  <2>1. editor' = [editor EXCEPT ![e] = editor[e]] /\ call' = [call EXCEPT ![e] = Special!NoCall]
    BY <1>4, <1>12 DEF Special!Failed
  <2> QED
    BY <1>1, <1>3, <1>5, <1>6, <2>1 DEF Writing, Version, Draft
<1> QED
  BY <1>7, <1>8, <1>9, <1>10, <1>11, <1>12

LEMMA LockStepsKeep ==
  ASSUME SpecialInv, NEW e \in Editors,
         Special!LockSpecialPages(e) \/ Special!ReadForWrite(e) \/ Special!RollBack(e)
  PROVE  SpecialInv'
<1>1. /\ row' = row /\ Writing(e) /\ Special!Displayed \in Special!Rows
      /\ Special!Displayed' = Special!Displayed
      /\ editor[e] \in Screens /\ call[e] \in Calls
      /\ editor \in [Editors -> Screens] /\ call \in [Editors -> Calls]
      /\ editor' = editor
  <2>1. row' = row /\ editor' = editor
    BY DEF Special!LockSpecialPages, Special!ReadForWrite, Special!RollBack
  <2>2. Special!Displayed' = Special!Displayed
    BY <2>1 DEF Special!Displayed, Special!Absent
  <2> QED
    BY <2>1, <2>2, DisplayedIsWhole DEF SpecialInv, Special!TypeOK, Screens, Calls
<1>2. editor' = [editor EXCEPT ![e] = editor[e]]
  BY <1>1
<1>3. ASSUME NEW c \in Calls, call' = [call EXCEPT ![e] = c],
             c.at \in {"locked", "read", "refused"}, c.op = call[e].op,
             call[e].at # "none",
             c.at \in {"locked", "read"} => holder' = e /\ holder \in {e, None},
             c.at = "refused" => holder' = None /\ holder = e,
             c.at = "read" => c.snapshot = Special!Displayed /\ row # Malformed
      PROVE  SpecialInv'
  <2>1. editor'[e] = editor[e] /\ call'[e] = c
    BY <1>1, <1>3
  <2>2. Writing(e)'
    BY <1>1, <1>3, <2>1, NoneAssumption DEF Writing, Version, Draft
  <2> QED
    BY <1>1, <1>2, <1>3, <2>2, OneEditorMoves
<1>4. CASE Special!LockSpecialPages(e)
  <2> DEFINE c == [call[e] EXCEPT !.at = "locked"]
  <2>1. c \in Calls /\ c.at = "locked" /\ c.op = call[e].op
    BY <1>1 DEF Calls, Special!Stages
  <2>2. call' = [call EXCEPT ![e] = c]
    BY <1>1, <1>4 DEF Special!LockSpecialPages, Calls
  <2> HIDE DEF c
  <2> QED
    BY <1>3, <1>4, <2>1, <2>2 DEF Special!LockSpecialPages
<1>5. CASE Special!ReadForWrite(e)
  <2>1. holder = e
    BY <1>1, <1>5 DEF Special!ReadForWrite, Writing
  <2>2. CASE row = Malformed
    <3> DEFINE c == [call[e] EXCEPT !.at = "refused"]
    <3>1. c \in Calls /\ c.at = "refused" /\ c.op = call[e].op
      BY <1>1 DEF Calls, Special!Stages
    <3>2. call' = [call EXCEPT ![e] = c]
      BY <1>1, <1>5, <2>2 DEF Special!ReadForWrite, Calls
    <3> HIDE DEF c
    <3> QED
      BY <1>3, <1>5, <2>1, <2>2, <3>1, <3>2 DEF Special!ReadForWrite
  <2>3. CASE row # Malformed
    <3> DEFINE c == [call[e] EXCEPT !.at = "read", !.snapshot = Special!Displayed]
    <3>1. /\ c \in Calls /\ c.at = "read" /\ c.op = call[e].op
          /\ c.snapshot = Special!Displayed
      BY <1>1 DEF Calls, Special!Stages
    <3>2. call' = [call EXCEPT ![e] = c]
      BY <1>1, <1>5, <2>3 DEF Special!ReadForWrite, Calls
    <3> HIDE DEF c
    <3> QED
      BY <1>3, <1>5, <2>1, <2>3, <3>1, <3>2 DEF Special!ReadForWrite
  <2> QED
    BY <2>2, <2>3
<1>6. CASE Special!RollBack(e)
  <2> DEFINE c == [call[e] EXCEPT !.at = "refused", !.snapshot = None]
  <2>1. c \in Calls /\ c.at = "refused" /\ c.op = call[e].op
    BY <1>1 DEF Calls, Special!Stages
  <2>2. call' = [call EXCEPT ![e] = c] /\ holder = e
    BY <1>1, <1>6 DEF Special!RollBack, Calls, Writing
  <2> HIDE DEF c
  <2> QED
    BY <1>3, <1>6, <2>1, <2>2 DEF Special!RollBack
<1> QED
  BY <1>4, <1>5, <1>6

\* What the holder of the lock writes: his page in its next version, the other
\* as it was.
LEMMA WriteChangesOnePage ==
  ASSUME SpecialInv, NEW e \in Editors, Special!Persist(e), call'[e].at = "done"
  PROVE  LET k == editor[e].page
             now == Special!Displayed[k]
             next == Special!Displayed'[k] IN
         /\ call[e].at = "read" /\ row # Malformed /\ row' # Malformed /\ row' \in Special!Rows
         /\ editor[e].version = now.version /\ next.version = now.version + 1
         /\ \A l \in FixedPages \ {k} : Special!Displayed'[l] = Special!Displayed[l]
         /\ call[e].op = "save" => /\ next.draft = editor[e].draft
                                   /\ next.published = now.published
         /\ call[e].op = "publish" => /\ next.draft = now.draft
                                      /\ next.published = now.draft
<1> DEFINE k == editor[e].page
           now == Special!Displayed[k]
<1>1. /\ call[e].at = "read" /\ call[e].snapshot = Special!Displayed /\ row # Malformed
      /\ editor[e] \in Screens /\ call[e] \in Calls /\ call \in [Editors -> Calls]
      /\ Special!Displayed \in Special!Rows
  BY DisplayedIsWhole DEF Special!Persist, SpecialInv, Special!TypeOK, Screens, Calls, Writing
<1>2. /\ now.version = editor[e].version /\ now.version < MaxPageVersion
      /\ row' = [Special!Displayed EXCEPT ![k] = Special!NextRecord(e, now)]
  BY <1>1 DEF Special!Persist, Calls
<1>3. now \in Special!Record /\ k \in FixedPages
  BY <1>1 DEF Special!Rows, Screens
<1> DEFINE new == Special!NextRecord(e, now)
<1>4. /\ new \in Special!Record /\ new.version = now.version + 1
      /\ call[e].op = "save" => new.draft = editor[e].draft /\ new.published = now.published
      /\ call[e].op = "publish" => new.draft = now.draft /\ new.published = now.draft
  <2>1. now.version + 1 \in 0 .. MaxPageVersion
    BY <1>2, <1>3, BoundsAssumption DEF Special!Record
  <2>2. CASE call[e].op = "save"
    <3>1. new = [now EXCEPT !.draft = editor[e].draft, !.version = now.version + 1]
      BY <2>2 DEF Special!NextRecord, Special!NextDraft
    <3> HIDE DEF new, now
    <3> QED
      BY <1>1, <1>3, <2>1, <2>2, <3>1 DEF Special!Record, Screens
  <2>3. CASE call[e].op # "save"
    <3>1. new = [now EXCEPT !.published = now.draft, !.version = now.version + 1]
      BY <2>3 DEF Special!NextRecord
    <3> HIDE DEF new, now
    <3> QED
      BY <1>1, <1>3, <2>1, <2>3, <3>1 DEF Special!Record
  <2> QED
    BY <2>2, <2>3
<1>5. row' = [Special!Displayed EXCEPT ![k] = new]
  BY <1>2
<1> HIDE DEF new
<1>6. row' \in Special!Rows
  BY <1>1, <1>3, <1>4, <1>5 DEF Special!Rows
<1>7. Special!Displayed' = row' /\ row' # Malformed
  BY <1>6, RowIsDisplayed
<1>8. /\ Special!Displayed'[k] = new
      /\ \A l \in FixedPages \ {k} : Special!Displayed'[l] = Special!Displayed[l]
  BY <1>1, <1>3, <1>5, <1>7 DEF Special!Rows
<1> QED
  BY <1>1, <1>2, <1>4, <1>6, <1>7, <1>8

LEMMA WriteKeeps ==
  ASSUME SpecialInv, NEW e \in Editors, Special!Persist(e) PROVE SpecialInv'
<1>1. /\ Writing(e) /\ Special!Displayed \in Special!Rows
      /\ editor[e] \in Screens /\ call[e] \in Calls
      /\ editor \in [Editors -> Screens] /\ call \in [Editors -> Calls]
      /\ editor' = editor /\ holder = e /\ holder' = None /\ call[e].at = "read"
  BY DisplayedIsWhole DEF Special!Persist, SpecialInv, Special!TypeOK, Screens, Calls, Writing
<1> PICK at \in {"done", "refused"} :
       /\ call' = [call EXCEPT ![e] = [call[e] EXCEPT !.at = at, !.snapshot = None]]
       /\ at = "refused" => row' = row
  BY <1>1 DEF Special!Persist, Calls
<1> DEFINE c == [call[e] EXCEPT !.at = at, !.snapshot = None]
<1>2. c \in Calls /\ c.at = at /\ c.op = call[e].op
  BY <1>1 DEF Calls, Special!Stages
<1>3. call' = [call EXCEPT ![e] = c] /\ call'[e] = c
  BY <1>1
<1> HIDE DEF c
<1>4. CASE at = "done"
  <2> DEFINE k == editor[e].page
             now == Special!Displayed[k]
             next == Special!Displayed'[k]
  <2>1. /\ row # Malformed /\ row' # Malformed
        /\ row' \in Special!Rows
        /\ editor[e].version = now.version /\ next.version = now.version + 1
        /\ \A l \in FixedPages \ {k} : Special!Displayed'[l] = Special!Displayed[l]
        /\ call[e].op = "save" => next.draft = editor[e].draft
        /\ call[e].op = "publish" => next.draft = now.draft
    BY <1>2, <1>3, <1>4, WriteChangesOnePage
  <2>2. Special!TypeOK'
    BY <1>1, <1>2, <1>3, <2>1 DEF SpecialInv, Special!TypeOK, Screens, Calls
  <2>3. now.version \in Nat /\ k \in FixedPages
    BY <1>1 DEF Screens, Special!Rows, Special!Record
  <2>4. Writing(e)'
    <3>1. /\ editor'[e] = editor[e] /\ Version(e)' = next.version /\ Draft(e)' = next.draft
          /\ editor[e].draft = now.draft \/ editor[e].dirty \/ call[e].op = "save"
          /\ call[e].op = "publish" => ~editor[e].dirty
      BY <1>1, <2>1 DEF Version, Draft, Writing
    <3>2. call[e].op \in {"save", "publish"}
      BY <1>1 DEF Calls
    <3> HIDE DEF now, next
    <3> QED
      BY <1>1, <1>2, <1>3, <1>4, <2>1, <2>3, <3>1, <3>2, NoneAssumption DEF Writing
  <2>5. ASSUME NEW f \in Editors \ {e} PROVE Writing(f)'
    <3>1. /\ editor'[f] = editor[f] /\ call'[f] = call[f] /\ Writing(f)
          /\ call[f].at \notin {"locked", "read"} /\ editor[f] \in Screens
      BY <1>1, <1>3 DEF SpecialInv, Writing
    <3>2. CASE editor[f].page = k
      <4>1. /\ Version(f) = now.version /\ Version(f)' = now.version + 1
            /\ editor[f].version \in Nat
        BY <2>1, <3>1, <3>2 DEF Version, Screens
      <4> HIDE DEF now
      <4> QED
        BY <1>1, <2>1, <2>3, <3>1, <4>1, NoneAssumption DEF Writing
    <3>3. CASE editor[f].page # k
      <4>1. Version(f)' = Version(f) /\ Draft(f)' = Draft(f)
        BY <2>1, <3>1, <3>3 DEF Version, Draft, Screens
      <4> QED
        BY <1>1, <2>1, <3>1, <4>1, NoneAssumption DEF Writing
    <3> QED
      BY <3>2, <3>3
  <2> QED
    BY <2>2, <2>4, <2>5 DEF SpecialInv
<1>5. CASE at = "refused"
  <2>1. Special!Displayed' = Special!Displayed
    BY <1>5 DEF Special!Displayed, Special!Absent
  <2>2. Writing(e)'
    BY <1>1, <1>2, <1>3, <1>5, <2>1, NoneAssumption DEF Writing, Version, Draft
  <2>3. editor' = [editor EXCEPT ![e] = editor[e]]
    BY <1>1
  <2> QED
    BY <1>1, <1>2, <1>3, <1>5, <2>2, <2>3, OneEditorMoves
<1> QED
  BY <1>4, <1>5

LEMMA SpecialKeeps == ASSUME SpecialInv, Special!Next PROVE SpecialInv'
BY ScreenStepsKeep, LockStepsKeep, WriteKeeps DEF Special!Next

(***************************************************************************)
(* The pages together.                                                     *)
(***************************************************************************)

FrontEndInv == ManagerInv /\ EditorInv /\ PanelInv /\ SpecialInv

LEMMA FrontEndIsInvariant == FrontEndSpec => []FrontEndInv
<1>1. FrontEndInit => FrontEndInv
  BY ManagersBegin, EditorBegins, PanelBegins, SpecialBegins DEF FrontEndInit, FrontEndInv
<1>2. FrontEndInv /\ [FrontEndNext]_frontEndVars => FrontEndInv'
  <2> SUFFICES ASSUME FrontEndInv, [FrontEndNext]_frontEndVars PROVE FrontEndInv'
    OBVIOUS
  <2>1. Managers!Next \/ UNCHANGED managerVars
    BY DEF FrontEndNext, frontEndVars
  <2>2. Editor!Next \/ UNCHANGED editorVars
    BY DEF FrontEndNext, frontEndVars
  <2>3. Community!Next \/ UNCHANGED communityVars
    BY DEF FrontEndNext, frontEndVars
  <2>4. Special!Next \/ UNCHANGED specialVars
    BY DEF FrontEndNext, frontEndVars
  <2> QED
    BY <2>1, <2>2, <2>3, <2>4, ManagersKeep, ManagersRest, EditorKeeps, EditorRests,
       PanelKeeps, PanelRests, SpecialKeeps, SpecialRests DEF FrontEndInv
<1> QED
  BY <1>1, <1>2, PTL DEF FrontEndSpec

\* Every page and what the server stores for it are well formed.
THEOREM FrontEndTyped == FrontEndSpec => []FrontEndTypeOK
<1>1. FrontEndInv => FrontEndTypeOK
  BY DEF FrontEndInv, ManagerInv, EditorInv, PanelInv, SpecialInv, FrontEndTypeOK
<1> QED
  BY <1>1, FrontEndIsInvariant, PTL

\* What was typed stays on the page through failures and late answers, and no
\* change of a document is forgotten (Management.tsx:98-130,
\* DocumentEditor.tsx:104-159).
THEOREM WorkStaysOnThePage == FrontEndSpec => []WorkIsKept
<1>1. FrontEndInv => WorkIsKept
  BY DEF FrontEndInv, ManagerInv, EditorInv, WorkIsKept
<1> QED
  BY <1>1, FrontEndIsInvariant, PTL

\* What a page shows as stored is what the server stores
\* (Management.tsx:113-146, DocumentEditor.tsx:127, SpecialPageEditor.tsx:39-56).
THEOREM PagesShowWhatIsStored == FrontEndSpec => []ScreenIsStored
<1>1. ManagerInv => Managers!ShownIsStored
  BY DEF ManagerInv, Agreed, Answered, Managers!ShownIsStored, Managers!Busy
<1>2. SpecialInv => Special!CleanIsStored
  BY DEF SpecialInv, Writing, Version, Draft, Special!CleanIsStored
<1>3. FrontEndInv => ScreenIsStored
  BY <1>1, <1>2 DEF FrontEndInv, EditorInv, ScreenIsStored
<1> QED
  BY <1>3, FrontEndIsInvariant, PTL

\* A page makes one document, and a push queues what was confirmed, once for
\* each subscriber (DocumentEditor.tsx:104-122, community/admin.ts:301-361).
THEOREM CallsActOnce == FrontEndSpec => []DoneOnceAsConfirmed
<1>1. EditorInv => Editor!OneDocument
  <2> SUFFICES ASSUME EditorInv, ~lostFirst PROVE ~(Len(docs) > 1)
    BY DEF Editor!OneDocument
  <2>1. \A n \in {0, 1} : ~(n > 1)
    OBVIOUS
  <2>2. Len(docs) = 1 \/ Len(docs) = 0
    BY Zenon DEF EditorInv, Only
  <2>3. Len(docs) \in {0, 1}
    BY <2>2, Zenon
  <2> QED
    BY <2>1, <2>3, Zenon
<1>2. FrontEndInv => DoneOnceAsConfirmed
  BY <1>1 DEF FrontEndInv, PanelInv, DoneOnceAsConfirmed
<1> QED
  BY <1>2, FrontEndIsInvariant, PTL

\* Only the holder of the lock changes what is displayed.
LEMMA OnlyWritesChangePages ==
  ASSUME SpecialInv, [Special!Next]_specialVars, Special!Displayed' # Special!Displayed
  PROVE  \E e \in Editors : Special!Persist(e) /\ call'[e].at = "done"
<1>1. row' # row
  BY DEF Special!Displayed, Special!Absent
<1>2. PICK e \in Editors : Special!Persist(e)
  BY <1>1 DEF Special!Next, specialVars, Special!Open, Special!Type, Special!Save,
     Special!Saved, Special!Published, Special!Failed, Special!LockSpecialPages,
     Special!ReadForWrite, Special!RollBack
<1>3. call[e] \in Calls /\ call \in [Editors -> Calls]
  BY DEF SpecialInv, Special!TypeOK, Calls
<1>4. call'[e].at = "done"
  BY <1>1, <1>2, <1>3 DEF Special!Persist, Calls
<1> QED
  BY <1>2, <1>4

\* No change of a special page is lost, and visitors get what was on the screen
\* of the editor who published (special-pages/store.ts:131-217).
THEOREM PagesFollowTheScreen == FrontEndSpec => SpecialPagesFollowTheScreen
<1>1. FrontEndInv /\ [FrontEndNext]_frontEndVars =>
        [\A k \in FixedPages :
           Special!Displayed'[k] # Special!Displayed[k] =>
             /\ Special!Displayed'[k].version = Special!Displayed[k].version + 1
             /\ \E e \in Editors : /\ editor[e].page = k
                                   /\ editor[e].version = Special!Displayed[k].version
                                   /\ call[e].at = "read" /\ call'[e].at = "done"]_(Special!vars)
  <2> SUFFICES ASSUME FrontEndInv, [FrontEndNext]_frontEndVars, NEW k \in FixedPages,
                      Special!Displayed'[k] # Special!Displayed[k]
               PROVE  /\ Special!Displayed'[k].version = Special!Displayed[k].version + 1
                      /\ \E e \in Editors : /\ editor[e].page = k
                                            /\ editor[e].version = Special!Displayed[k].version
                                            /\ call[e].at = "read" /\ call'[e].at = "done"
    OBVIOUS
  <2>1. SpecialInv /\ [Special!Next]_specialVars
    BY DEF FrontEndInv, FrontEndNext, frontEndVars
  <2>2. PICK e \in Editors : Special!Persist(e) /\ call'[e].at = "done"
    BY <2>1, OnlyWritesChangePages
  <2> QED
    BY <2>1, <2>2, WriteChangesOnePage
<1>2. FrontEndInv /\ [FrontEndNext]_frontEndVars =>
        [\A k \in FixedPages :
           Special!Public(k)' # Special!Public(k) =>
             \E e \in Editors : /\ editor[e].page = k /\ call[e].op = "publish"
                                /\ Special!Public(k)' = editor[e].draft]_(Special!vars)
  <2> SUFFICES ASSUME FrontEndInv, [FrontEndNext]_frontEndVars, NEW k \in FixedPages,
                      Special!Public(k)' # Special!Public(k)
               PROVE  \E e \in Editors : /\ editor[e].page = k /\ call[e].op = "publish"
                                         /\ Special!Public(k)' = editor[e].draft
    OBVIOUS
  <2>1. SpecialInv /\ [Special!Next]_specialVars
    BY DEF FrontEndInv, FrontEndNext, frontEndVars
  <2>2. Special!Displayed'[k] # Special!Displayed[k]
    BY DEF Special!Public
  <2>3. PICK e \in Editors : Special!Persist(e) /\ call'[e].at = "done"
    BY <2>1, <2>2, OnlyWritesChangePages
  <2>4. /\ call[e].at = "read" /\ row # Malformed /\ editor[e].page = k
        /\ editor[e].version = Special!Displayed[k].version
        /\ call[e].op = "save" =>
             Special!Displayed'[k].published = Special!Displayed[k].published
        /\ call[e].op = "publish" =>
             Special!Displayed'[k].published = Special!Displayed[k].draft
    BY <2>1, <2>2, <2>3, WriteChangesOnePage
  <2>5. call[e].op = "publish"
    <3>1. call[e].op \in {"save", "publish"}
      BY <2>1 DEF SpecialInv, Special!TypeOK
    <3> QED
      BY <2>4, <3>1 DEF Special!Public
  <2>6. Special!Displayed[k].draft = editor[e].draft
    BY <2>1, <2>4, <2>5 DEF SpecialInv, Writing, Version, Draft
  <2>7. editor[e].draft # None
    BY <2>1, NoneAssumption DEF SpecialInv, Special!TypeOK
  <2> QED
    BY <2>4, <2>5, <2>6, <2>7 DEF Special!Public
<1> QED
  BY <1>1, <1>2, FrontEndIsInvariant, PTL
     DEF FrontEndSpec, SpecialPagesFollowTheScreen, Special!NoChangeLost,
         Special!PublishedAsShown
=============================================================================
