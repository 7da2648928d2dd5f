---------------------------- MODULE SiteSettings -----------------------------
(***************************************************************************)
(* The site settings: one row with the introduction of the members' page   *)
(* and what only administrators change, here the navigation                *)
(* (src/lib/cms/settings.ts), the administrators' page that edits all of   *)
(* it (SettingsManager in components/admin/Management.tsx) and the         *)
(* editors' action that replaces the introduction alone.                   *)
(***************************************************************************)
EXTENDS Naturals, Sequences, SequencesExt
CONSTANTS Admins, Editors, Texts,
          NewIds,          \* bound: the ids of added entries
          Hrefs,           \* addresses a user gives; "" is a blank field
          None,
          MinNavigation, MaxNavigation

VARIABLES
  row,      \* the stored settings; None: no row
  page,     \* the settings page of each administrator
  save      \* the save each user waits for, with what it has read

vars == <<row, page, save>>

Savers == Admins \union Editors

Entry(id, href, order, fixed) ==
  [id |-> id, href |-> href, order |-> order, fixed |-> fixed]

\* defaultSiteSettings, with its first and third entry of four.
Default == [intro |-> CHOOSE t \in Texts : TRUE,
            navigation |-> <<Entry("home", "/", 0, TRUE),
                             Entry("members", "/members", 1, TRUE)>>]

\* readSettings.
Settings == IF row = None THEN Default ELSE row

NoSave == [at |-> "idle", read |-> None, value |-> None]

Init ==
  /\ row = None
  /\ page = [a \in Admins |-> Default]
  /\ save = [u \in Savers |-> NoSave]

--------------------------------------------------------------------------
\* validateSettingsInput.

Distinct(nav, of(_)) == \A i, j \in DOMAIN nav : of(nav[i]) = of(nav[j]) => i = j

\* The first entry with a required address is the fixed one.
Required(nav, href) ==
  \E i \in DOMAIN nav : /\ nav[i].href = href /\ nav[i].fixed
                        /\ \A j \in 1 .. i - 1 : nav[j].href # href

KeepsFixed(nav, old) ==
  \A i \in DOMAIN old : old[i].fixed =>
    \E j \in DOMAIN nav : /\ nav[j].id = old[i].id /\ nav[j].href = old[i].href
                          /\ nav[j].fixed

Unambiguous(nav) ==
  Distinct(nav, LAMBDA e : e.id) /\ Distinct(nav, LAMBDA e : e.order)

ValidSettings(value, old) ==
  LET nav == value.navigation
  IN /\ Len(nav) \in MinNavigation .. MaxNavigation
     /\ \A i \in DOMAIN nav : nav[i].href # ""
     /\ Unambiguous(nav)
     /\ Required(nav, "/") /\ Required(nav, "/members")
     /\ KeepsFixed(nav, old)

--------------------------------------------------------------------------
\* The administrators' page.

Edit(a, nav) ==
  /\ page' = [page EXCEPT ![a].navigation = nav]
  /\ UNCHANGED <<row, save>>

Renumbered(nav) == [i \in DOMAIN nav |-> [nav[i] EXCEPT !.order = i - 1]]

Open(a) ==
  /\ page' = [page EXCEPT ![a] = Settings]
  /\ UNCHANGED <<row, save>>

NavUpdate(a) ==
  /\ \E i \in DOMAIN page[a].navigation, h \in Hrefs :
       /\ ~page[a].navigation[i].fixed
       /\ Edit(a, [page[a].navigation EXCEPT ![i].href = h])

Move(a) ==
  /\ LET nav == page[a].navigation
     IN \E i \in 1 .. Len(nav) - 1 :
          Edit(a, Renumbered([nav EXCEPT ![i] = nav[i + 1], ![i + 1] = nav[i]]))

Without(nav, i) == Renumbered(RemoveAt(nav, i))

RemoveEntry(a) ==
  /\ LET nav == page[a].navigation
     IN \E i \in DOMAIN nav : ~nav[i].fixed /\ Edit(a, Without(nav, i))

\* randomUUID: an id that is nowhere in use.
IdsOf(value) == {value.navigation[i].id : i \in DOMAIN value.navigation}
InUse == UNION ({IdsOf(page[a]) : a \in Admins} \union {IdsOf(Settings)}
  \union {IdsOf(save[a].value) : a \in {b \in Admins : save[b].value # None}}
  \union {IdsOf(save[u].read) : u \in {v \in Savers : save[v].read # None}})

AddEntry(a) ==
  \E id \in NewIds \ InUse :
    LET nav == page[a].navigation
    IN Edit(a, Append(nav, Entry(id, "", Len(nav), FALSE)))

\* The form asks for every field; while a save runs the button is off, the
\* fields are not.
Submit(a) ==
  /\ save[a].at = "idle"
  /\ \A i \in DOMAIN page[a].navigation : page[a].navigation[i].href # ""
  /\ save' = [save EXCEPT ![a] = [at |-> "sent", read |-> None, value |-> page[a]]]
  /\ UNCHANGED <<row, page>>

SubmitIntro(e) ==
  /\ save[e].at = "idle"
  /\ \E t \in Texts :
       save' = [save EXCEPT ![e] = [at |-> "sent", read |-> None, value |-> t]]
  /\ UNCHANGED <<row, page>>

--------------------------------------------------------------------------
\* The actions: read the row, validate, write it, without a transaction.

\* Of what a save of the introduction writes, all but that is what it has read.
NextValue(u) == IF u \in Admins THEN save[u].value
                ELSE [save[u].read EXCEPT !.intro = save[u].value]

ReadSettings(u) ==
  /\ save[u].at = "sent"
  /\ save' = [save EXCEPT ![u].at = "read", ![u].read = Settings]
  /\ UNCHANGED <<row, page>>

PersistSettings(u) ==
  /\ save[u].at = "read"
  /\ IF ValidSettings(NextValue(u), save[u].read.navigation)
     THEN /\ row' = NextValue(u)
          /\ save' = [save EXCEPT ![u] =
               [at |-> "stored", read |-> None, value |-> NextValue(u)]]
     ELSE /\ save' = [save EXCEPT ![u] = [NoSave EXCEPT !.at = "refused"]]
          /\ UNCHANGED row
  /\ UNCHANGED page

\* The page takes over the answer; an intro page keeps its text.
Saved(u) ==
  /\ save[u].at = "stored"
  /\ page' = IF u \in Admins THEN [page EXCEPT ![u] = save[u].value] ELSE page
  /\ save' = [save EXCEPT ![u] = NoSave]
  /\ UNCHANGED row

\* A refusal, or an error: of the audit row, or of the connection.
Failed(u) ==
  /\ save[u].at # "idle"
  /\ save' = [save EXCEPT ![u] = NoSave]
  /\ UNCHANGED <<row, page>>

Next ==
  \/ \E a \in Admins : \/ Open(a) \/ NavUpdate(a) \/ Move(a)
                       \/ RemoveEntry(a) \/ AddEntry(a) \/ Submit(a)
  \/ \E e \in Editors : SubmitIntro(e)
  \/ \E u \in Savers : ReadSettings(u) \/ PersistSettings(u) \/ Saved(u) \/ Failed(u)

Spec == Init /\ [][Next]_vars

--------------------------------------------------------------------------
\* The row, the pages and the saves are well formed.
TypeOK ==
  /\ row = None \/ row.intro \in Texts
  /\ \A a \in Admins : page[a].intro \in Texts
  /\ \A u \in Savers :
       save[u].at \in {"idle", "sent", "read", "stored", "refused"}

\* However entries are added, removed and moved on a page, and whatever
\* answers arrive meanwhile: no two have one id or one place in the order, so
\* a page that is filled in is never refused for that (validation.ts:469-472),
\* and the fixed entries are on it and in the row (validation.ts:475-484).
NavigationIsSound ==
  \A value \in {page[a] : a \in Admins} \union {Settings} :
    /\ Unambiguous(value.navigation)
    /\ KeepsFixed(value.navigation, Default.navigation)
=============================================================================
