---------------------------- MODULE MailSettings -----------------------------
(***************************************************************************)
(* The SMTP settings: the pages on which administrators edit them          *)
(* (components/admin/MailManager.tsx), the action that stores them in one  *)
(* row with the password encrypted (src/lib/mail/config.ts, crypto.ts),    *)
(* and the rotation of the encryption key over restarts of the service.    *)
(***************************************************************************)
EXTENDS Naturals
CONSTANTS Admins, Passwords, None,
          MaxKey  \* bound: secrets the deployment ever has

VARIABLES
  row,       \* the row of mail_settings
  current,   \* BETTER_AUTH_SECRET, numbered
  previous,  \* MAIL_ENCRYPTION_PREVIOUS_SECRET, None when unset
  resaved,   \* a save has succeeded since the last rotation
  page       \* the page of each administrator, with the save it waits for

vars == <<row, current, previous, resaved, page>>

\* The fields that matter: the switch, a new password, "clear the password".
Form == [enabled : BOOLEAN, secret : Passwords \union {None}, clear : BOOLEAN]
Steps == {"idle", "sent", "write", "audit", "done", "failed", "other"}

TypeOK ==
  /\ row \in [enabled : BOOLEAN, password : Passwords \union {None},
              key : 1 .. MaxKey]
  /\ current \in 1 .. MaxKey
  /\ previous \in 1 .. MaxKey \union {None}
  /\ resaved \in BOOLEAN
  /\ page \in [Admins -> [shown : BOOLEAN, asked : Form, at : Steps,
                          kept : Passwords \union {None}]]

\* shown: the switch as the page last got it; asked: what a save carries.
Blank == [enabled |-> FALSE, secret |-> None, clear |-> FALSE]
Idle(shown) == [shown |-> shown, asked |-> Blank, at |-> "idle", kept |-> None]

Init ==
  /\ row = [enabled |-> FALSE, password |-> None, key |-> 1]
  /\ current = 1 /\ previous = None /\ resaved = FALSE
  /\ page = [a \in Admins |-> Idle(FALSE)]

Goto(a, at) == page' = [page EXCEPT ![a].at = at]

--------------------------------------------------------------------------
\* The page.

Reload(a) ==
  /\ page[a].at = "idle"
  /\ page' = [page EXCEPT ![a] = Idle(row.enabled)]
  /\ UNCHANGED <<row, current, previous, resaved>>

\* The fields as the user has left them.
Submit(a) ==
  /\ page[a].at = "idle"
  /\ \E f \in Form : page' = [page EXCEPT ![a].asked = f, ![a].at = "sent"]
  /\ UNCHANGED <<row, current, previous, resaved>>

\* The answer renews the page's settings and empties the password fields.
Saved(a) ==
  /\ page[a].at = "done"
  /\ page' = [page EXCEPT ![a] = Idle(page[a].asked.enabled)]
  /\ resaved' = TRUE
  /\ UNCHANGED <<row, current, previous>>

\* A refusal, or no answer at all: the server goes on no further than it got.
Failed(a) ==
  /\ page[a].at \in {"sent", "write", "audit", "done", "failed"}
  /\ page' = [page EXCEPT ![a] = Idle(page[a].shown)]
  /\ UNCHANGED <<row, current, previous, resaved>>

\* The page's other calls keep it busy and leave the settings alone.
SendTest(a) ==
  /\ page[a].at = "idle" /\ page[a].shown
  /\ Goto(a, "other")
  /\ UNCHANGED <<row, current, previous, resaved>>

Retry(a) ==
  /\ page[a].at = "idle"
  /\ Goto(a, "other")
  /\ UNCHANGED <<row, current, previous, resaved>>

OtherAnswer(a) ==
  /\ page[a].at = "other"
  /\ Goto(a, "idle")
  /\ UNCHANGED <<row, current, previous, resaved>>

--------------------------------------------------------------------------
\* saveStoredMailSettings: no transaction, a read and a write of the row.

Valid(f) == ~(f.clear /\ f.secret # None)

\* The current secret is tried first, then the previous one.
Readable == row.password # None /\ row.key \in {current, previous}

\* The password the row is to hold; unreadable when it has to be kept: refused.
KeptPassword(f) ==
  IF f.secret # None THEN f.secret
  ELSE IF f.clear THEN None ELSE row.password

Unreadable(f) ==
  f.secret = None /\ ~f.clear /\ row.password # None /\ ~Readable

ReadStored(a) ==
  LET f == page[a].asked IN
  /\ page[a].at = "sent"
  /\ page' = IF ~Valid(f) \/ Unreadable(f)
                  \/ (f.enabled /\ KeptPassword(f) = None)
               THEN [page EXCEPT ![a].at = "failed"]
               ELSE [page EXCEPT ![a].at = "write", ![a].kept = KeptPassword(f)]
  /\ UNCHANGED <<row, current, previous, resaved>>

\* Fault variant: a password that is kept keeps its ciphertext.
WriteRowAsItWas(a) ==
  /\ page[a].at = "write"
  /\ row' = [enabled |-> page[a].asked.enabled, password |-> page[a].kept,
             key |-> IF page[a].asked.secret = None THEN row.key ELSE current]
  /\ page' = [page EXCEPT ![a].at = "audit", ![a].kept = None]
  /\ UNCHANGED <<current, previous, resaved>>

\* The whole row, the password encrypted with the current secret.
WriteRow(a) ==
  /\ page[a].at = "write"
  /\ row' = [enabled |-> page[a].asked.enabled, password |-> page[a].kept,
             key |-> current]
  /\ page' = [page EXCEPT ![a].at = "audit", ![a].kept = None]
  /\ UNCHANGED <<current, previous, resaved>>

\* The audit row is a statement of its own: the save may succeed and be
\* reported as failed.
WriteAudit(a) ==
  /\ page[a].at = "audit"
  /\ Goto(a, "done") \/ Goto(a, "failed")
  /\ UNCHANGED <<row, current, previous, resaved>>

--------------------------------------------------------------------------
\* The rotation, by its instructions: a new secret with the old one as the
\* bridge, one save that keeps the password, and the bridge removed.  Each of
\* the two restarts the service and ends the saves that run in it.

Restart ==
  page' = [a \in Admins |->
             IF page[a].at # "idle"
               THEN [page[a] EXCEPT !.at = "failed", !.kept = None,
                                    !.asked = Blank]
               ELSE page[a]]

Rotate ==
  /\ previous = None /\ current < MaxKey
  /\ current' = current + 1
  /\ previous' = current
  /\ resaved' = FALSE
  /\ Restart
  /\ UNCHANGED row

EndRotation ==
  /\ previous # None /\ resaved
  /\ previous' = None
  /\ Restart
  /\ UNCHANGED <<row, current, resaved>>

Next ==
  \/ \E a \in Admins :
       \/ Reload(a) \/ Submit(a) \/ Saved(a) \/ Failed(a)
       \/ SendTest(a) \/ Retry(a) \/ OtherAnswer(a)
       \/ ReadStored(a) \/ WriteRow(a) \/ WriteAudit(a)
  \/ Rotate \/ EndRotation

Spec == Init /\ [][Next]_vars

--------------------------------------------------------------------------
\* Mail that is switched on can be sent: the row holds a password, and one
\* that the secrets of the deployment decrypt, through any interleaving of
\* saves, failures and rotations.
CredentialIsUsable == row.enabled => Readable
=============================================================================
