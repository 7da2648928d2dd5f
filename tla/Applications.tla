---------------------------- MODULE Applications -----------------------------
(***************************************************************************)
(* One application for membership (src/src/lib/community): it is submitted *)
(* in private, disclosed by mail once its owner has proved the address,    *)
(* reviewed, withdrawn or deleted, while the worker sends the mail.        *)
(*                                                                         *)
(* A request is a READ COMMITTED transaction and each of its statements a  *)
(* step.  Its writes are visible to others after the commit, the rows it   *)
(* has written or selected FOR UPDATE are locked until then.  Statements   *)
(* whose effect nobody can see or prevent are one step with the commit.    *)
(***************************************************************************)
CONSTANT Requests  \* as many requests as run at once

VARIABLES
  application,  \* the row of community_applications
  token,        \* its row of community_action_tokens
  job,          \* its rows of mail_jobs
  checked,      \* jobs a worker has found eligible and not yet sent
  sent,         \* jobs whose mail was sent
  tx,           \* the transaction of each request
  overtaken     \* history: jobs retried after a withdrawal had looked

vars == <<application, token, job, checked, sent, tx, overtaken>>

\* The verification mail holds a link, the others the application itself.
Private == {"copy", "notification"}
Mails == {"verification"} \union Private

\* Pending, reviewing, accepted and declined are all "open".
Application == [status : {"absent", "open", "withdrawn", "deleted"},
                verified : BOOLEAN]
JobStatuses == {"none", "open", "failed", "closed"}

Kinds == {"none", "confirm", "open", "withdrawn", "delete"}
Statements == {"token", "application", "lock", "jobs", "row", "commit"}
Rows == {"token", "application"}

\* kind: "open" and "withdrawn" are the status an editor asks for; holds: the
\* rows it has locked; mails: jobs it has suppressed or deleted.
Transaction == [kind : Kinds, at : Statements, holds : SUBSET Rows,
                mails : SUBSET Mails]
NoTransaction == [kind |-> "none", at |-> "commit", holds |-> {}, mails |-> {}]

TypeOK ==
  /\ application \in Application
  /\ token \in {"none", "valid", "used"}
  /\ job \in [Mails -> JobStatuses]
  /\ checked \subseteq Mails
  /\ sent \subseteq Mails
  /\ tx \in [Requests -> Transaction]
  /\ \A r, s \in Requests : r # s => tx[r].holds \intersect tx[s].holds = {}
  /\ overtaken \subseteq Mails

Init ==
  /\ application = [status |-> "absent", verified |-> FALSE]
  /\ token = "none"
  /\ job = [k \in Mails |-> "none"]
  /\ checked = {}
  /\ sent = {}
  /\ tx = [r \in Requests |-> NoTransaction]
  /\ overtaken = {}

Exists == application.status \in {"open", "withdrawn"}

Locked(r, row) == \E s \in Requests \ {r} : row \in tx[s].holds

database == <<application, token, job>>
worker == <<checked, sent, overtaken>>

Moves(r, new) ==
  /\ tx' = [tx EXCEPT ![r] = new]
  /\ UNCHANGED <<database, worker>>

Ends(r) == Moves(r, NoTransaction)
-----------------------------------------------------------------------------
(* Requests. *)

\* submitApplication: the row, its token and the verification mail at once.
SubmitApplication ==
  /\ application.status = "absent"
  /\ application' = [application EXCEPT !.status = "open"]
  /\ token' = "valid"
  /\ job' = [job EXCEPT !["verification"] = "open"]
  /\ UNCHANGED <<tx, worker>>

Begin(r, kind, statement) ==
  /\ application.status # "absent"
  /\ tx[r].kind = "none"
  /\ Moves(r, [NoTransaction EXCEPT !.kind = kind, !.at = statement])

ConfirmApplicationReceipt(r) == Begin(r, "confirm", "token")

ChangeApplicationStatus(r, status) == Begin(r, status, "lock")

DeleteApplication(r) == Begin(r, "delete", "lock")

\* consumeCommunityToken; the link may have expired.
ConsumeToken(r) ==
  /\ tx[r].at = "token"
  /\ ~Locked(r, "token")
  /\ \/ Ends(r)
     \/ /\ token = "valid"
        /\ Moves(r, [tx[r] EXCEPT !.at = "application", !.holds = {"token"}])

\* UPDATE ... WHERE email_verified_at IS NULL AND status <> 'withdrawn'.
Verifiable == application.status = "open" /\ ~application.verified

\* The token is spent even if there is nothing left to verify.
VerifyAddress(r) ==
  /\ tx[r].at = "application"
  /\ IF Verifiable
     THEN /\ ~Locked(r, "application")
          /\ Moves(r, [tx[r] EXCEPT !.at = "row", !.holds = Rows])
     ELSE Moves(r, [tx[r] EXCEPT !.at = "commit"])

\* Fault variant: the second enqueueMail fails, and nothing is thrown.
ConfirmHalf(r) ==
  /\ tx[r].kind = "confirm" /\ tx[r].at = "row"
  /\ application' = [application EXCEPT !.verified = TRUE]
  /\ token' = "used"
  /\ job' = [job EXCEPT !["copy"] = "open"]
  /\ tx' = [tx EXCEPT ![r] = NoTransaction]
  /\ UNCHANGED worker

\* enqueueMail twice and commit.  A dedupe key that exists is left alone.
ConfirmCommits(r) ==
  /\ tx[r].kind = "confirm" /\ tx[r].at \in {"row", "commit"}
  /\ token' = "used"
  /\ IF tx[r].at = "row"
     THEN /\ application' = [application EXCEPT !.verified = TRUE]
          /\ job' = [k \in Mails |-> IF k \in Private /\ job[k] = "none"
                                     THEN "open" ELSE job[k]]
     ELSE UNCHANGED <<application, job>>
  /\ tx' = [tx EXCEPT ![r] = NoTransaction]
  /\ UNCHANGED worker

\* Fault variant: SELECT without FOR UPDATE.
ReadApplication(r) ==
  /\ tx[r].at = "lock"
  /\ \/ /\ Exists
        /\ \/ tx[r].kind = "delete"
           \/ application.verified /\ application.status # "withdrawn"
        /\ Moves(r, [tx[r] EXCEPT !.at = "jobs"])
     \/ Ends(r)

\* SELECT ... FOR UPDATE, and what is refused on what it returns.
LockApplication(r) ==
  /\ tx[r].at = "lock"
  /\ ~Locked(r, "application")
  /\ IF /\ Exists
        /\ \/ tx[r].kind = "delete"
           \/ application.verified /\ application.status # "withdrawn"
     THEN Moves(r, [tx[r] EXCEPT !.at = "jobs", !.holds = {"application"}])
     ELSE Ends(r)

\* suppressApplicationMailJobs of a withdrawal, DELETE FROM mail_jobs of a
\* deletion; jobs another has written and not committed are not seen.
TouchJobs(r) ==
  /\ tx[r].at = "jobs"
  /\ Moves(r, [tx[r] EXCEPT !.at = "row",
       !.mails = CASE tx[r].kind = "delete" -> {k \in Mails : job[k] # "none"}
                   [] tx[r].kind = "withdrawn" -> {k \in Mails : job[k] = "open"}
                   [] OTHER -> {}])

\* The row was updated after the SELECT; nobody but this transaction had it.
StatusCommits(r) ==
  /\ tx[r].kind \in {"open", "withdrawn"} /\ tx[r].at = "row"
  /\ ~Locked(r, "application")
  /\ application' = IF Exists THEN [application EXCEPT !.status = tx[r].kind]
                    ELSE application
  /\ job' = [k \in Mails |-> IF k \in tx[r].mails THEN "closed" ELSE job[k]]
  /\ tx' = [tx EXCEPT ![r] = NoTransaction]
  /\ UNCHANGED <<token, worker>>

\* DELETE of the row, which takes its token with it (ON DELETE CASCADE).
DeleteCommits(r) ==
  /\ tx[r].kind = "delete" /\ tx[r].at = "row"
  /\ \A row \in Rows : ~Locked(r, row)
  /\ application' = [application EXCEPT !.status = "deleted"]
  /\ token' = "none"
  /\ job' = [k \in Mails |-> IF k \in tx[r].mails THEN "none" ELSE job[k]]
  /\ tx' = [tx EXCEPT ![r] = NoTransaction]
  /\ UNCHANGED worker

\* A rollback: mail is disabled, a statement fails, a deadlock is broken.
Abort(r) == tx[r].kind # "none" /\ Ends(r)
-----------------------------------------------------------------------------
(* The worker, and the administrator who retries a failed job. *)

JobLocked(k) == \E r \in Requests : k \in tx[r].mails

\* shouldSuppressMailJob.
Eligible(k) ==
  /\ application.status = "open"
  /\ k = "verification" \/ application.verified

CheckJob(k) ==
  /\ job[k] = "open" /\ k \notin checked
  /\ IF Eligible(k)
     THEN checked' = checked \union {k} /\ UNCHANGED job
     ELSE /\ ~JobLocked(k)
          /\ job' = [job EXCEPT ![k] = "closed"]
          /\ UNCHANGED checked
  /\ UNCHANGED <<application, token, sent, tx, overtaken>>

\* Fault variant: the lease is not read again.
SendUnchecked(k) ==
  /\ k \in checked
  /\ checked' = checked \ {k}
  /\ sent' = sent \union {k}
  /\ job' = [job EXCEPT ![k] = IF @ = "open" THEN "closed" ELSE @]
  /\ UNCHANGED <<application, token, tx, overtaken>>

\* isLeaseActive sees the row as it was before an open transaction.
SendJob(k) ==
  /\ k \in checked
  /\ checked' = checked \ {k}
  /\ IF job[k] = "open"
     THEN /\ sent' = sent \union {k}
          /\ job' = [job EXCEPT ![k] = "closed"]
     ELSE UNCHANGED <<sent, job>>
  /\ UNCHANGED <<application, token, tx, overtaken>>

\* markRetry after the last attempt.
FailJob(k) ==
  /\ job[k] = "open" /\ ~JobLocked(k)
  /\ checked' = checked \ {k}
  /\ job' = [job EXCEPT ![k] = "failed"]
  /\ UNCHANGED <<application, token, sent, tx, overtaken>>

RetryMailJob(k) ==
  /\ job[k] = "failed" /\ ~JobLocked(k)
  /\ job' = [job EXCEPT ![k] = "open"]
  /\ overtaken' =
       IF \E r \in Requests : tx[r].kind = "withdrawn" /\ tx[r].at = "row"
       THEN overtaken \union {k} ELSE overtaken
  /\ UNCHANGED <<application, token, checked, sent, tx>>

Progress(r) ==
  \/ ConsumeToken(r) \/ VerifyAddress(r) \/ ConfirmCommits(r)
  \/ LockApplication(r) \/ TouchJobs(r) \/ StatusCommits(r) \/ DeleteCommits(r)

Next ==
  \/ SubmitApplication
  \/ \E r \in Requests :
       \/ ConfirmApplicationReceipt(r) \/ DeleteApplication(r)
       \/ \E status \in {"open", "withdrawn"} : ChangeApplicationStatus(r, status)
       \/ Progress(r) \/ Abort(r)
  \/ \E k \in Mails :
       CheckJob(k) \/ SendJob(k) \/ FailJob(k) \/ RetryMailJob(k)

Spec == Init /\ [][Next]_vars

\* r waits for a row s holds.
WaitsFor(r, s) ==
  /\ r # s
  /\ \/ tx[r].at = "token" /\ "token" \in tx[s].holds
     \/ /\ tx[r].at = "application" /\ Verifiable
        /\ "application" \in tx[s].holds
     \/ tx[r].at = "lock" /\ "application" \in tx[s].holds
     \/ /\ tx[r].kind = "delete" /\ tx[r].at = "row"
        /\ "token" \in tx[s].holds

\* The database aborts one of the transactions that wait in a circle.
BreakDeadlock ==
  \E r, s \in Requests : WaitsFor(r, s) /\ WaitsFor(s, r) /\ Abort(r)
-----------------------------------------------------------------------------
(* Properties. *)

\* A deletion leaves nothing of the application in the outbox, and nothing
\* comes back: not from a confirmation, a withdrawal or a retry that was
\* under way (admin.ts:205-216).
DeletionIsComplete ==
  application.status = "deleted" =>
    token = "none" /\ \A k \in Mails : job[k] = "none"

\* The application is disclosed once its owner has proved the address, to him
\* and to the society, or to neither of them (actions.ts:259-262, 313).
DisclosedToBoth ==
  Exists => \A k \in Private : job[k] # "none" <=> application.verified

\* A withdrawal is final although other editors decided on what they read
\* before (admin.ts:170).
WithdrawalIsFinal ==
  [][application.status = "withdrawn"
       => application'.status \in {"withdrawn", "deleted"}]_vars

\* Mail is sent while the application is open, and what is private after the
\* address was proved; only a job retried while a withdrawal was under way
\* can come after it (docs/SMTP配置.md:54).
SentWhileWanted ==
  [][\A k \in sent' \ sent :
       \/ application.status = "withdrawn" /\ k \in overtaken
       \/ /\ application.status = "open"
          /\ k \in Private => application.verified]_vars
=============================================================================
