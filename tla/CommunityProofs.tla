-------------------------- MODULE CommunityProofs ---------------------------
(***************************************************************************)
(* Theorems about CommunitySpec, for any number of requests, links, posts  *)
(* and applicants' requests.  What concerns the subscriber comes from      *)
(* SubscriptionsProofs; the rest of this module is about the application.  *)
(*                                                                         *)
(* The argument: the row of the application is locked from the moment an   *)
(* editor's request has looked at it, so what it found then is still so    *)
(* when it commits (Reviewed), and the jobs it will close or delete are    *)
(* all there are (FitsMail).  A confirmation holds the token and, while    *)
(* there is something to verify, the row too.  The worker locks neither:   *)
(* a job it has checked may have become unwanted since, but then it is not *)
(* open any more (Checking).                                               *)
(***************************************************************************)
EXTENDS Community, SubscriptionsProofs

\* What an editor's request found when it locked the application.
Reviewed(kind) ==
  IF kind = "delete" THEN App!Exists
  ELSE application.status = "open" /\ application.verified

\* A transaction that may be where it is, with the rows it has locked.
FitsConfirmation(t) ==
  t.kind = "confirm" =>
    /\ t.mails = {}
    /\ \/ t.at = "token" /\ t.holds = {}
       \/ t.at \in {"application", "commit"} /\ t.holds = {"token"}
       \/ t.at = "row" /\ t.holds = App!Rows /\ App!Verifiable
    /\ t.at # "token" => secret = "valid"

FitsDecision(t) ==
  t.kind \in {"open", "withdrawn", "delete"} =>
    /\ \/ t.at = "lock" /\ t.holds = {} /\ t.mails = {}
       \/ t.at = "jobs" /\ t.holds = {"application"} /\ t.mails = {}
       \/ t.at = "row" /\ t.holds = {"application"}
    /\ t.at # "lock" => Reviewed(t.kind)

\* What it is about to do to the mail.
FitsMail(t) ==
  /\ t.kind = "open" => t.mails = {}
  /\ t.kind = "withdrawn" /\ t.at = "row" =>
       \A k \in App!Mails : mail[k] = "open" => k \in t.mails \union retried
  /\ t.kind \in {"withdrawn", "delete"} => \A k \in t.mails : mail[k] # "none"
  /\ t.kind = "delete" /\ t.at = "row" =>
       \A k \in App!Mails : mail[k] # "none" => k \in t.mails

ApplicantFits(t) ==
  /\ t.kind = "none" => t = App!NoTransaction
  /\ t.kind # "none" => application.status # "absent"
  /\ FitsConfirmation(t) /\ FitsDecision(t) /\ FitsMail(t)

\* Before the submission there is nothing.
Beginning ==
  application.status = "absent" =>
    /\ ~application.verified
    /\ \A k \in App!Mails : mail[k] = "none"

\* A job that is checked is open, or will never be open again.
Checking ==
  \A k \in checked :
    /\ mail[k] # "failed"
    /\ mail[k] = "none" => application.status = "deleted"
    /\ mail[k] = "open" =>
         \/ application.status = "withdrawn" /\ k \in retried
         \/ App!Eligible(k)

\* The inductive invariant.
ApplicationInv ==
  /\ App!TypeOK /\ Beginning /\ Checking
  /\ App!DisclosedToBoth /\ App!DeletionIsComplete
  /\ \A r \in Applicants : ApplicantFits(work[r])

LEMMA IdleApplicant ==
  /\ App!NoTransaction \in App!Transaction
  /\ App!NoTransaction.kind = "none" /\ App!NoTransaction.at = "commit"
  /\ App!NoTransaction.holds = {} /\ App!NoTransaction.mails = {}
BY SMT DEF App!NoTransaction, App!Transaction, App!Kinds, App!Statements, App!Rows, App!Mails

\* Nothing but the fields of a transaction moves: it has to fit where it
\* moves to, and to lock what nobody has locked.
LEMMA ApplicantMoves ==
  ASSUME ApplicationInv, NEW r \in Applicants, NEW new \in App!Transaction,
         App!Moves(r, new), ApplicantFits(new),
         \A s \in Applicants \ {r} : new.holds \intersect work[s].holds = {}
  PROVE  ApplicationInv'
<1>1. App!TypeOK'
  BY SMT DEF ApplicationInv, App!TypeOK, App!Moves, App!database, App!worker
<1>2. Beginning' /\ Checking' /\ App!DisclosedToBoth' /\ App!DeletionIsComplete'
  BY SMT DEF ApplicationInv, App!Moves, App!database, App!worker, Beginning,
     Checking, App!DisclosedToBoth,
     App!DeletionIsComplete, App!Exists, App!Eligible
<1>3. \A s \in Applicants : ApplicantFits(work[s])'
  <2> SUFFICES ASSUME NEW s \in Applicants PROVE ApplicantFits(work[s])'
    OBVIOUS
  <2>1. ApplicantFits(work'[s])
    BY SMT DEF ApplicationInv, App!TypeOK, App!Moves
  <2> QED
    BY <2>1, Zenon DEF App!Moves, App!database, App!worker, ApplicantFits,
       FitsConfirmation, FitsDecision,
       FitsMail, Reviewed, App!Exists, App!Verifiable
<1> QED
  BY <1>1, <1>2, <1>3 DEF ApplicationInv

LEMMA IdleApplicantFits == ApplicantFits(App!NoTransaction) /\ ApplicantFits(App!NoTransaction)'
BY IdleApplicant, SMT DEF ApplicantFits, FitsConfirmation, FitsDecision, FitsMail

LEMMA ApplicantEnds ==
  ASSUME ApplicationInv, NEW r \in Applicants, App!Ends(r) PROVE ApplicationInv'
<1>1. App!Moves(r, App!NoTransaction) /\ ApplicantFits(App!NoTransaction)
  BY IdleApplicantFits DEF App!Ends, ApplicationInv
<1> QED
  BY <1>1, IdleApplicant, ApplicantMoves
-----------------------------------------------------------------------------
(* Steps that move one transaction. *)

\* What the fields of a rewritten transaction are.
LEMMA RewrittenAt ==
  ASSUME NEW t \in App!Transaction, NEW at \in App!Statements
  PROVE  LET n == [t EXCEPT !.at = at]
         IN n \in App!Transaction /\ n.kind = t.kind /\ n.at = at /\ n.holds = t.holds
              /\ n.mails = t.mails
BY DEF App!Transaction

LEMMA SameTransaction ==
  ASSUME NEW t \in App!Transaction, NEW n \in App!Transaction,
         t.kind = n.kind, t.at = n.at, t.holds = n.holds, t.mails = n.mails
  PROVE  t = n
BY DEF App!Transaction

LEMMA RewrittenHolds ==
  ASSUME NEW t \in App!Transaction, NEW at \in App!Statements,
         NEW holds, holds \subseteq App!Rows
  PROVE  [t EXCEPT !.at = at, !.holds = holds]
           = [kind |-> t.kind, at |-> at, holds |-> holds, mails |-> t.mails]
<1> DEFINE n == [t EXCEPT !.at = at, !.holds = holds]
           m == [kind |-> t.kind, at |-> at, holds |-> holds, mails |-> t.mails]
<1>1. n \in App!Transaction /\ m \in App!Transaction
  BY DEF App!Transaction
<1>2. n.kind = m.kind /\ n.at = m.at /\ n.holds = m.holds /\ n.mails = m.mails
  BY DEF App!Transaction
<1> HIDE DEF n, m
<1>3. n = m
  BY <1>1, <1>2, SameTransaction
<1> QED
  BY <1>3 DEF n, m

LEMMA RewrittenMails ==
  ASSUME NEW t \in App!Transaction, NEW at \in App!Statements,
         NEW mails, mails \subseteq App!Mails
  PROVE  [t EXCEPT !.at = at, !.mails = mails]
           = [kind |-> t.kind, at |-> at, holds |-> t.holds, mails |-> mails]
<1> DEFINE n == [t EXCEPT !.at = at, !.mails = mails]
           m == [kind |-> t.kind, at |-> at, holds |-> t.holds, mails |-> mails]
<1>1. n \in App!Transaction /\ m \in App!Transaction
  BY DEF App!Transaction
<1>2. n.kind = m.kind /\ n.at = m.at /\ n.holds = m.holds /\ n.mails = m.mails
  BY DEF App!Transaction
<1> HIDE DEF n, m
<1>3. n = m
  BY <1>1, <1>2, SameTransaction
<1> QED
  BY <1>3 DEF n, m

LEMMA Started ==
  ASSUME NEW kind \in App!Kinds, NEW at \in App!Statements
  PROVE  LET n == [App!NoTransaction EXCEPT !.kind = kind, !.at = at]
         IN n \in App!Transaction /\ n.kind = kind /\ n.at = at /\ n.holds = {} /\ n.mails = {}
BY IdleApplicant DEF App!Transaction

LEMMA ApplicantBegins ==
  ASSUME ApplicationInv, NEW r \in Applicants,
         NEW kind \in App!Kinds \ {"none"}, NEW at \in App!Statements,
         at = IF kind = "confirm" THEN "token" ELSE "lock",
         App!Begin(r, kind, at)
  PROVE  ApplicationInv'
<1> DEFINE new == [App!NoTransaction EXCEPT !.kind = kind, !.at = at]
<1>1. /\ new \in App!Transaction /\ new.kind = kind /\ new.at = at
      /\ new.holds = {} /\ new.mails = {}
  BY Started
<1>2. App!Moves(r, new) /\ application.status # "absent"
  BY DEF App!Begin
<1> HIDE DEF new
<1>4. ApplicantFits(new)
  BY <1>1, <1>2, SMT DEF App!Kinds, ApplicantFits, FitsConfirmation, FitsDecision, FitsMail
<1>5. \A s \in Applicants \ {r} : new.holds \intersect work[s].holds = {}
  BY <1>1
<1> QED
  BY <1>1, <1>2, <1>4, <1>5, ApplicantMoves

LEMMA SpendingToken ==
  ASSUME ApplicationInv, NEW r \in Applicants, App!ConsumeToken(r) PROVE ApplicationInv'
<1>1. CASE App!Ends(r)
  BY <1>1, ApplicantEnds
<1>2. CASE /\ secret = "valid"
           /\ App!Moves(r, [work[r] EXCEPT !.at = "application", !.holds = {"token"}])
  <2> DEFINE new == [work[r] EXCEPT !.at = "application", !.holds = {"token"}]
  <2>1. work[r] \in App!Transaction /\ ApplicantFits(work[r]) /\ work[r].at = "token"
    BY DEF ApplicationInv, App!TypeOK, App!ConsumeToken
  <2>2. work[r].kind = "confirm" /\ work[r].mails = {}
    BY <2>1, SMT DEF App!Transaction, App!Kinds, ApplicantFits, FitsConfirmation,
     FitsDecision, App!NoTransaction
  <2>4. "application" \in App!Statements /\ {"token"} \subseteq App!Rows
    BY DEF App!Statements, App!Rows
  <2>3. /\ new \in App!Transaction /\ new.kind = "confirm" /\ new.at = "application"
        /\ new.holds = {"token"} /\ new.mails = {}
    <3>1. new = [kind |-> work[r].kind, at |-> "application", holds |-> {"token"},
                  mails |-> work[r].mails]
      BY <2>4, <2>1, RewrittenHolds
    <3> HIDE DEF new
    <3> QED
      BY <3>1, <2>4, <2>1, <2>2 DEF App!Transaction
  <2>8. App!Moves(r, new)
    BY <1>2
  <2> HIDE DEF new
  <2>5. application.status # "absent"
    BY <2>1, <2>2 DEF ApplicantFits
  <2>6. ApplicantFits(new)
    BY <2>3, <2>5, <1>2, SMT DEF ApplicantFits, FitsConfirmation, FitsDecision, FitsMail
  <2>7. \A s \in Applicants \ {r} : new.holds \intersect work[s].holds = {}
    BY <2>3 DEF App!ConsumeToken, App!Locked
  <2> QED
    BY <2>3, <2>6, <2>7, <2>8, ApplicantMoves
<1> QED
  BY <1>1, <1>2 DEF App!ConsumeToken

LEMMA VerifyingAddress ==
  ASSUME ApplicationInv, NEW r \in Applicants, App!VerifyAddress(r) PROVE ApplicationInv'
<1>1. work[r] \in App!Transaction /\ ApplicantFits(work[r]) /\ work[r].at = "application"
  BY DEF ApplicationInv, App!TypeOK, App!VerifyAddress
<1>2. /\ work[r].kind = "confirm" /\ work[r].mails = {} /\ work[r].holds = {"token"}
      /\ secret = "valid" /\ application.status # "absent"
  BY <1>1, SMT DEF App!Transaction, App!Kinds, ApplicantFits, FitsConfirmation,
     FitsDecision, App!NoTransaction
<1>3. CASE App!Verifiable
  <2> DEFINE new == [work[r] EXCEPT !.at = "row", !.holds = App!Rows]
  <2>2. "row" \in App!Statements /\ App!Rows \subseteq App!Rows
    BY DEF App!Statements, App!Rows
  <2>1. /\ new \in App!Transaction /\ new.kind = "confirm" /\ new.at = "row"
        /\ new.holds = App!Rows /\ new.mails = {}
    <3>1. new = [kind |-> work[r].kind, at |-> "row", holds |-> App!Rows,
                  mails |-> work[r].mails]
      BY <2>2, <1>1, RewrittenHolds
    <3> HIDE DEF new
    <3> QED
      BY <3>1, <2>2, <1>1, <1>2 DEF App!Transaction
  <2>4. App!Moves(r, new) /\ ~App!Locked(r, "application")
    BY <1>3 DEF App!VerifyAddress
  <2> HIDE DEF new
  <2>3. ApplicantFits(new)
    BY <2>1, <1>2, <1>3, Zenon DEF ApplicantFits, FitsConfirmation, FitsDecision, FitsMail
  <2>5. \A s \in Applicants \ {r} : work[r].holds \intersect work[s].holds = {}
    BY DEF ApplicationInv, App!TypeOK
  <2>6. \A s \in Applicants \ {r} : new.holds \intersect work[s].holds = {}
    BY <2>1, <2>4, <2>5, <1>2 DEF App!Locked, App!Rows
  <2> QED
    BY <2>1, <2>3, <2>4, <2>6, ApplicantMoves
<1>4. CASE ~App!Verifiable
  <2> DEFINE new == [work[r] EXCEPT !.at = "commit"]
  <2>2. "commit" \in App!Statements
    BY DEF App!Statements
  <2>1. /\ new \in App!Transaction /\ new.kind = "confirm" /\ new.at = "commit"
        /\ new.holds = {"token"} /\ new.mails = {}
    BY <2>2, <1>1, <1>2, RewrittenAt
  <2>4. App!Moves(r, new)
    BY <1>4 DEF App!VerifyAddress
  <2> HIDE DEF new
  <2>3. ApplicantFits(new)
    BY <2>1, <1>2, SMT DEF ApplicantFits, FitsConfirmation, FitsDecision, FitsMail
  <2>5. \A s \in Applicants \ {r} : new.holds \intersect work[s].holds = {}
    BY <2>1, <1>2 DEF ApplicationInv, App!TypeOK
  <2> QED
    BY <2>1, <2>3, <2>4, <2>5, ApplicantMoves
<1> QED
  BY <1>3, <1>4

LEMMA LockingApplication ==
  ASSUME ApplicationInv, NEW r \in Applicants, App!LockApplication(r) PROVE ApplicationInv'
<1>1. CASE App!Ends(r)
  BY <1>1, ApplicantEnds
<1>2. CASE /\ App!Exists
           /\ work[r].kind = "delete" \/ (application.verified /\ application.status # "withdrawn")
           /\ App!Moves(r, [work[r] EXCEPT !.at = "jobs", !.holds = {"application"}])
  <2> DEFINE new == [work[r] EXCEPT !.at = "jobs", !.holds = {"application"}]
  <2>1. work[r] \in App!Transaction /\ ApplicantFits(work[r]) /\ work[r].at = "lock"
        /\ ~App!Locked(r, "application")
    BY DEF ApplicationInv, App!TypeOK, App!LockApplication
  <2>2. /\ work[r].kind \in {"open", "withdrawn", "delete"} /\ work[r].mails = {}
        /\ application.status # "absent"
    BY <2>1, SMT DEF App!Transaction, App!Kinds, ApplicantFits, FitsConfirmation,
     FitsDecision, App!NoTransaction
  <2>4. "jobs" \in App!Statements /\ {"application"} \subseteq App!Rows
    BY DEF App!Statements, App!Rows
  <2>3. /\ new \in App!Transaction /\ new.kind = work[r].kind /\ new.at = "jobs"
        /\ new.holds = {"application"} /\ new.mails = {}
    <3>1. new = [kind |-> work[r].kind, at |-> "jobs", holds |-> {"application"},
                  mails |-> work[r].mails]
      BY <2>4, <2>1, RewrittenHolds
    <3> HIDE DEF new
    <3> QED
      BY <3>1, <2>4, <2>1, <2>2 DEF App!Transaction
  <2>8. App!Moves(r, new)
    BY <1>2
  <2> HIDE DEF new
  <2>5. Reviewed(work[r].kind)
    BY <1>2, <2>2, Zenon DEF Reviewed, App!Exists
  <2>6. ApplicantFits(new)
    <3>1. FitsDecision(new)
      BY <2>3, <2>5, Zenon DEF FitsDecision
    <3> QED
      BY <3>1, <2>2, <2>3, SMT DEF ApplicantFits, FitsConfirmation, FitsMail
  <2>7. \A s \in Applicants \ {r} : new.holds \intersect work[s].holds = {}
    BY <2>3, <2>1 DEF App!Locked
  <2> QED
    BY <2>3, <2>6, <2>7, <2>8, ApplicantMoves
<1> QED
  BY <1>1, <1>2 DEF App!LockApplication

\* The mail a transaction will suppress or delete is all there is.
LEMMA TouchingJobs ==
  ASSUME ApplicationInv, NEW r \in Applicants, App!TouchJobs(r) PROVE ApplicationInv'
<1> DEFINE found == CASE work[r].kind = "delete" -> {k \in App!Mails : mail[k] # "none"}
                      [] work[r].kind = "withdrawn" -> {k \in App!Mails : mail[k] = "open"}
                      [] OTHER -> {}
           new == [work[r] EXCEPT !.at = "row", !.mails = found]
<1>1. work[r] \in App!Transaction /\ ApplicantFits(work[r]) /\ work[r].at = "jobs" /\ App!Moves(r, new)
  BY DEF ApplicationInv, App!TypeOK, App!TouchJobs
<1>2. /\ work[r].kind \in {"open", "withdrawn", "delete"} /\ work[r].holds = {"application"}
      /\ application.status # "absent" /\ Reviewed(work[r].kind)
  BY <1>1, SMT DEF App!Transaction, App!Kinds, ApplicantFits, FitsConfirmation,
     FitsDecision, App!NoTransaction
<1>3. found \subseteq App!Mails
  BY <1>2
<1>4. /\ new \in App!Transaction /\ new.kind = work[r].kind /\ new.at = "row"
      /\ new.holds = {"application"} /\ new.mails = found
  <2>1. "row" \in App!Statements
    BY DEF App!Statements
  <2> HIDE DEF found
  <2>2. new = [kind |-> work[r].kind, at |-> "row", holds |-> work[r].holds, mails |-> found]
    BY <2>1, <1>1, <1>3, RewrittenMails
  <2> HIDE DEF new
  <2> QED
    BY <2>1, <2>2, <1>1, <1>2, <1>3 DEF App!Transaction
<1>5. /\ work[r].kind = "open" => found = {}
      /\ work[r].kind = "withdrawn" => found = {k \in App!Mails : mail[k] = "open"}
      /\ work[r].kind = "delete" => found = {k \in App!Mails : mail[k] # "none"}
  OBVIOUS
<1> HIDE DEF found, new
<1>7. FitsDecision(new)
  BY <1>2, <1>4, Zenon DEF FitsDecision
<1>8. FitsMail(new)
  BY <1>2, <1>4, <1>5, SMT DEF FitsMail
<1>9. ApplicantFits(new)
  BY <1>2, <1>4, <1>7, <1>8, SMT DEF ApplicantFits, FitsConfirmation
<1>10. \A s \in Applicants \ {r} : new.holds \intersect work[s].holds = {}
  BY <1>2, <1>4 DEF ApplicationInv, App!TypeOK
<1> QED
  BY <1>1, <1>4, <1>9, <1>10, ApplicantMoves
-----------------------------------------------------------------------------
(* Steps that write the tables. *)

\* A transaction that has locked nothing fits whatever the others write.
LEMMA UnlockedFits ==
  ASSUME NEW t \in App!Transaction, ApplicantFits(t), t.holds = {}, application'.status # "absent"
  PROVE  ApplicantFits(t)'
<1>1. t.kind = "none" => t = App!NoTransaction
  BY DEF ApplicantFits
<1>2. t.kind = "confirm" => t.at = "token" /\ t.mails = {}
  BY DEF ApplicantFits, FitsConfirmation, App!Rows
<1>3. t.kind \in {"open", "withdrawn", "delete"} => t.at = "lock" /\ t.mails = {}
  BY DEF ApplicantFits, FitsDecision
<1>4. FitsConfirmation(t)'
  BY <1>2 DEF ApplicantFits, FitsConfirmation
<1>5. FitsDecision(t)'
  BY <1>3 DEF ApplicantFits, FitsDecision
<1>6. FitsMail(t)'
  BY <1>3 DEF ApplicantFits, FitsMail
<1> QED
  BY <1>1, <1>4, <1>5, <1>6 DEF ApplicantFits

\* What is known of the next value of a request's transaction.
LEMMA NextApplicantFits ==
  ASSUME NEW s, NEW t, work'[s] = t, ApplicantFits(t)' PROVE ApplicantFits(work[s])'
BY DEF ApplicantFits, FitsConfirmation, FitsDecision, FitsMail

LEMMA OtherApplicantsFit ==
  ASSUME ApplicationInv, NEW r \in Applicants, work' = [work EXCEPT ![r] = App!NoTransaction],
         \A s \in Applicants \ {r} :
           \A t \in App!Transaction : t = work[s] => ApplicantFits(t)'
  PROVE  \A s \in Applicants : ApplicantFits(work[s])'
<1> SUFFICES ASSUME NEW s \in Applicants PROVE ApplicantFits(work[s])'
  OBVIOUS
<1>1. CASE s = r
  <2>1. work'[s] = App!NoTransaction
    BY <1>1 DEF ApplicationInv, App!TypeOK
  <2>2. ApplicantFits(App!NoTransaction)'
    BY IdleApplicantFits
  <2> QED
    BY <2>1, <2>2, NextApplicantFits
<1>2. CASE s # r
  <2>1. work'[s] = work[s] /\ work[s] \in App!Transaction
    BY <1>2 DEF ApplicationInv, App!TypeOK
  <2>2. PICK t \in App!Transaction : t = work[s]
    BY <2>1
  <2>3. ApplicantFits(t)'
    BY <1>2, <2>2
  <2> QED
    BY <2>1, <2>2, <2>3, NextApplicantFits
<1> QED
  BY <1>1, <1>2

\* Two transactions do not hold one row.
LEMMA HeldByOne ==
  ASSUME ApplicationInv, NEW r \in Applicants, NEW s \in Applicants \ {r}, NEW t \in App!Transaction,
         t = work[s]
  PROVE  work[r].holds \intersect t.holds = {} /\ ApplicantFits(t)
BY DEF ApplicationInv, App!TypeOK

\* A commit frees the rows of its transaction.
LEMMA CommitFreesRows ==
  ASSUME ApplicationInv, NEW r \in Applicants, work' = [work EXCEPT ![r] = App!NoTransaction],
         application' \in App!Application, mail' \in [App!Mails -> App!JobStatuses],
         secret' \in {"none", "valid", "used"}, UNCHANGED <<checked, sent, retried>>
  PROVE  App!TypeOK'
BY IdleApplicant, SMT DEF ApplicationInv, App!TypeOK

LEMMA ConfirmingCommits ==
  ASSUME ApplicationInv, NEW r \in Applicants, App!ConfirmCommits(r) PROVE ApplicationInv'
<1>1. /\ work[r] \in App!Transaction /\ ApplicantFits(work[r])
      /\ work[r].kind = "confirm" /\ work[r].at \in {"row", "commit"}
      /\ secret' = "used" /\ work' = [work EXCEPT ![r] = App!NoTransaction]
      /\ UNCHANGED <<checked, sent, retried>>
  BY DEF ApplicationInv, App!TypeOK, App!ConfirmCommits, App!worker
<1>2. application.status # "absent" /\ secret = "valid"
  BY <1>1 DEF ApplicantFits, FitsConfirmation
<1>3. CASE work[r].at = "row"
  <2>1. /\ application' = [application EXCEPT !.verified = TRUE]
        /\ mail' = [k \in App!Mails |-> IF k \in App!Private /\ mail[k] = "none"
                                        THEN "open" ELSE mail[k]]
    BY <1>3 DEF App!ConfirmCommits
  <2>2. work[r].holds = App!Rows /\ App!Verifiable
    BY <1>1, <1>3 DEF ApplicantFits, FitsConfirmation
  <2>3. application'.status = "open" /\ application'.verified = TRUE
    BY <2>1, <2>2 DEF ApplicationInv, App!TypeOK, App!Application, App!Verifiable
  <2>4. App!TypeOK'
    <3>1. application' \in App!Application
      BY <2>1 DEF ApplicationInv, App!TypeOK, App!Application
    <3>2. mail' \in [App!Mails -> App!JobStatuses]
      BY <2>1 DEF ApplicationInv, App!TypeOK, App!JobStatuses
    <3> QED
      BY <1>1, <3>1, <3>2, CommitFreesRows
  <2>5. Beginning' /\ App!DeletionIsComplete'
    BY <2>3 DEF Beginning, App!DeletionIsComplete
  <2>6. App!DisclosedToBoth'
    BY <2>1, <2>3 DEF App!DisclosedToBoth, App!Private, App!Mails
  <2>7. Checking'
    <3> SUFFICES ASSUME NEW k \in checked
                 PROVE  mail'[k] # "failed" /\ mail'[k] # "none"
      BY <1>1, <2>3 DEF Checking, App!Eligible
    <3>1. k \in App!Mails /\ mail[k] # "failed" /\ mail[k] # "none"
      BY <2>2 DEF ApplicationInv, App!TypeOK, Checking, App!Verifiable
    <3> QED
      BY <2>1, <3>1
  <2>8. \A s \in Applicants : ApplicantFits(work[s])'
    <3>1. ASSUME NEW s \in Applicants \ {r}, NEW t \in App!Transaction, t = work[s]
          PROVE  ApplicantFits(t)'
      <4>1. t.holds = {}
        BY <2>2, <3>1, HeldByOne DEF App!Transaction
      <4> QED
        BY <4>1, <2>3, <3>1, HeldByOne, UnlockedFits
    <3> QED
      BY <1>1, <3>1, OtherApplicantsFit
  <2> QED
    BY <2>4, <2>5, <2>6, <2>7, <2>8 DEF ApplicationInv
<1>4. CASE work[r].at = "commit"
  <2>1. UNCHANGED <<application, mail>>
    BY <1>4 DEF App!ConfirmCommits
  <2>2. work[r].holds = {"token"}
    BY <1>1, <1>4 DEF ApplicantFits, FitsConfirmation
  <2>4. App!TypeOK'
    BY <1>1, <2>1, IdleApplicant, SMT DEF ApplicationInv, App!TypeOK
  <2>5. Beginning' /\ App!DeletionIsComplete' /\ App!DisclosedToBoth' /\ Checking'
    <3>1. application.status # "deleted"
      BY <1>2 DEF ApplicationInv, App!DeletionIsComplete
    <3> QED
      BY <1>1, <2>1, <3>1 DEF ApplicationInv, Beginning, App!DeletionIsComplete, App!DisclosedToBoth,
         App!Exists, Checking, App!Eligible
  <2>8. \A s \in Applicants : ApplicantFits(work[s])'
    <3>1. ASSUME NEW s \in Applicants \ {r}, NEW t \in App!Transaction, t = work[s]
          PROVE  ApplicantFits(t)'
      <4>1. "token" \notin t.holds /\ ApplicantFits(t)
        BY <2>2, <3>1, HeldByOne
      <4>2. FitsConfirmation(t)'
        BY <4>1 DEF ApplicantFits, FitsConfirmation, App!Rows
      <4>3. FitsDecision(t)' /\ FitsMail(t)'
        BY <4>1, <1>1, <2>1 DEF ApplicantFits, FitsDecision, FitsMail, Reviewed, App!Exists
      <4> QED
        BY <4>1, <4>2, <4>3, <2>1 DEF ApplicantFits
    <3> QED
      BY <1>1, <3>1, OtherApplicantsFit
  <2> QED
    BY <2>4, <2>5, <2>8 DEF ApplicationInv
<1> QED
  BY <1>1, <1>3, <1>4

LEMMA DecisionCommits ==
  ASSUME ApplicationInv, NEW r \in Applicants, App!StatusCommits(r) PROVE ApplicationInv'
<1>1. /\ work[r] \in App!Transaction /\ ApplicantFits(work[r])
      /\ work[r].kind \in {"open", "withdrawn"} /\ work[r].at = "row"
      /\ application' = IF App!Exists THEN [application EXCEPT !.status = work[r].kind]
                        ELSE application
      /\ mail' = [k \in App!Mails |-> IF k \in work[r].mails THEN "closed" ELSE mail[k]]
      /\ work' = [work EXCEPT ![r] = App!NoTransaction]
      /\ UNCHANGED <<secret, checked, sent, retried>>
  BY DEF ApplicationInv, App!TypeOK, App!StatusCommits, App!worker
<1>2. /\ application.status = "open" /\ application.verified = TRUE
      /\ work[r].holds = {"application"}
  BY <1>1, SMT DEF ApplicantFits, FitsDecision, Reviewed, ApplicationInv, App!TypeOK, App!Application
<1>3. /\ work[r].kind = "open" => work[r].mails = {}
      /\ \A k \in work[r].mails : mail[k] # "none"
      /\ work[r].kind = "withdrawn" =>
           \A k \in App!Mails : mail[k] = "open" => k \in work[r].mails \union retried
  BY <1>1 DEF ApplicantFits, FitsMail
<1>4. application'.status = work[r].kind /\ application'.verified = TRUE
  BY <1>1, <1>2 DEF ApplicationInv, App!TypeOK, App!Application, App!Exists
<1>5. App!TypeOK'
  <2>1. application' \in App!Application
    BY <1>1 DEF ApplicationInv, App!TypeOK, App!Application
  <2>2. mail' \in [App!Mails -> App!JobStatuses]
    BY <1>1 DEF ApplicationInv, App!TypeOK, App!JobStatuses
  <2> QED
    BY <1>1, <2>1, <2>2, CommitFreesRows DEF ApplicationInv, App!TypeOK
<1>6. Beginning' /\ App!DeletionIsComplete'
  BY <1>1, <1>4 DEF Beginning, App!DeletionIsComplete
<1>7. App!DisclosedToBoth'
  <2>1. \A k \in App!Private : k \in App!Mails /\ mail[k] # "none"
    BY <1>2 DEF ApplicationInv, App!DisclosedToBoth, App!Exists, App!Mails
  <2> QED
    BY <1>1, <1>4, <2>1 DEF App!DisclosedToBoth
<1>8. Checking'
  <2> SUFFICES ASSUME NEW k \in checked
               PROVE  /\ mail'[k] # "failed" /\ mail'[k] # "none"
                      /\ mail'[k] = "open" =>
                           \/ work[r].kind = "withdrawn" /\ k \in retried
                           \/ work[r].kind = "open"
    BY <1>1, <1>4 DEF Checking, App!Eligible
  <2>1. k \in App!Mails /\ mail[k] # "failed" /\ mail[k] # "none"
    BY <1>2 DEF ApplicationInv, App!TypeOK, Checking
  <2> QED
    BY <1>1, <1>3, <2>1
<1>9. \A s \in Applicants : ApplicantFits(work[s])'
  <2>1. ASSUME NEW s \in Applicants \ {r}, NEW t \in App!Transaction, t = work[s]
        PROVE  ApplicantFits(t)'
    <3>1. "application" \notin t.holds /\ ApplicantFits(t)
      BY <1>2, <2>1, HeldByOne
    <3>2. t.kind \in {"open", "withdrawn", "delete"} => t.at = "lock" /\ t.mails = {}
      BY <3>1 DEF ApplicantFits, FitsDecision
    <3>3. FitsConfirmation(t)'
      BY <3>1, <1>1 DEF ApplicantFits, FitsConfirmation, App!Rows
    <3>4. FitsDecision(t)' /\ FitsMail(t)'
      BY <3>1, <3>2 DEF ApplicantFits, FitsDecision, FitsMail
    <3> QED
      BY <3>1, <3>3, <3>4, <1>1, <1>4 DEF ApplicantFits
  <2> QED
    BY <1>1, <2>1, OtherApplicantsFit
<1> QED
  BY <1>5, <1>6, <1>7, <1>8, <1>9 DEF ApplicationInv

LEMMA DeletionCommits ==
  ASSUME ApplicationInv, NEW r \in Applicants, App!DeleteCommits(r) PROVE ApplicationInv'
<1>1. /\ work[r] \in App!Transaction /\ ApplicantFits(work[r])
      /\ work[r].kind = "delete" /\ work[r].at = "row"
      /\ \A row \in App!Rows : ~App!Locked(r, row)
      /\ application' = [application EXCEPT !.status = "deleted"] /\ secret' = "none"
      /\ mail' = [k \in App!Mails |-> IF k \in work[r].mails THEN "none" ELSE mail[k]]
      /\ work' = [work EXCEPT ![r] = App!NoTransaction]
      /\ UNCHANGED <<checked, sent, retried>>
  BY DEF ApplicationInv, App!TypeOK, App!DeleteCommits, App!worker
<1>2. application'.status = "deleted"
  BY <1>1 DEF ApplicationInv, App!TypeOK, App!Application
<1>3. \A k \in App!Mails : mail'[k] = "none"
  BY <1>1 DEF ApplicantFits, FitsMail
<1>4. App!TypeOK'
  <2>1. application' \in App!Application
    BY <1>1 DEF ApplicationInv, App!TypeOK, App!Application
  <2>2. mail' \in [App!Mails -> App!JobStatuses]
    BY <1>1 DEF ApplicationInv, App!TypeOK, App!JobStatuses
  <2> QED
    BY <1>1, <2>1, <2>2, CommitFreesRows
<1>5. Beginning' /\ App!DeletionIsComplete' /\ App!DisclosedToBoth'
  BY <1>1, <1>2, <1>3 DEF Beginning, App!DeletionIsComplete, App!DisclosedToBoth, App!Exists
<1>6. Checking'
  BY <1>1, <1>2, <1>3 DEF Checking, ApplicationInv, App!TypeOK
<1>7. \A s \in Applicants : ApplicantFits(work[s])'
  <2>1. ASSUME NEW s \in Applicants \ {r}, NEW t \in App!Transaction, t = work[s]
        PROVE  ApplicantFits(t)'
    <3>1. t.holds = {}
      BY <1>1, <2>1 DEF App!Locked, App!Transaction
    <3> QED
      BY <1>2, <2>1, <3>1, HeldByOne, UnlockedFits
  <2> QED
    BY <1>1, <2>1, OtherApplicantsFit
<1> QED
  BY <1>4, <1>5, <1>6, <1>7 DEF ApplicationInv

LEMMA Submission ==
  ASSUME ApplicationInv, App!SubmitApplication PROVE ApplicationInv'
<1>1. /\ application.status = "absent"
      /\ application' = [application EXCEPT !.status = "open"]
      /\ secret' = "valid" /\ mail' = [mail EXCEPT !["verification"] = "open"]
      /\ UNCHANGED <<work, checked, sent, retried>>
  BY DEF App!SubmitApplication, App!worker
<1>2. /\ application.verified = FALSE /\ checked = {}
      /\ \A k \in App!Mails : mail[k] = "none"
      /\ \A s \in Applicants : work[s] = App!NoTransaction
  <2>1. /\ \A k \in App!Mails : mail[k] = "none"
        /\ application.verified = FALSE
    BY <1>1, Zenon DEF ApplicationInv, Beginning, App!TypeOK, App!Application
  <2>2. checked = {}
    BY <1>1, <2>1, Zenon DEF ApplicationInv, App!TypeOK, Checking
  <2>3. \A s \in Applicants : work[s] = App!NoTransaction
    BY <1>1 DEF ApplicationInv, ApplicantFits
  <2> QED
    BY <2>1, <2>2, <2>3
<1>3. application' \in App!Application /\ application'.status = "open"
  BY <1>1 DEF ApplicationInv, App!TypeOK, App!Application
<1>4. application'.verified = FALSE
  BY <1>1, <1>2 DEF ApplicationInv, App!TypeOK, App!Application
<1>5. /\ mail' \in [App!Mails -> App!JobStatuses]
      /\ \A k \in App!Private : mail'[k] = "none"
  BY <1>1, <1>2 DEF ApplicationInv, App!TypeOK, App!Mails, App!Private, App!JobStatuses
<1>6. App!TypeOK'
  BY <1>1, <1>3, <1>5 DEF ApplicationInv, App!TypeOK
<1>7. Beginning' /\ Checking' /\ App!DeletionIsComplete' /\ App!DisclosedToBoth'
  BY <1>1, <1>2, <1>3, <1>4, <1>5
     DEF Beginning, Checking, App!DeletionIsComplete, App!DisclosedToBoth
<1>8. \A s \in Applicants : ApplicantFits(work[s])'
  <2> SUFFICES ASSUME NEW s \in Applicants PROVE ApplicantFits(work[s])'
    OBVIOUS
  <2>1. work'[s] = App!NoTransaction
    BY <1>1, <1>2
  <2> QED
    BY <2>1, NextApplicantFits, IdleApplicantFits
<1> QED
  BY <1>6, <1>7, <1>8 DEF ApplicationInv

\* The worker and the administrator move one job; a job is not taken back.
LEMMA ApplicationJobMoves ==
  ASSUME ApplicationInv, NEW k \in App!Mails, NEW status \in App!JobStatuses \ {"none"},
         mail[k] # "none", mail' = [mail EXCEPT ![k] = status],
         UNCHANGED <<application, secret, work>>,
         checked' \subseteq App!Mails, sent' \subseteq App!Mails,
         retried \subseteq retried', retried' \subseteq App!Mails,
         status = "open" =>
           /\ mail[k] # "open"
           /\ \A r \in Applicants : work[r].kind = "withdrawn" /\ work[r].at = "row"
                                      => k \in retried',
         Checking'
  PROVE  ApplicationInv'
<1>1. App!TypeOK'
  BY SMT DEF ApplicationInv, App!TypeOK
<1>2. Beginning' /\ App!DeletionIsComplete' /\ App!DisclosedToBoth'
  BY SMT DEF ApplicationInv, App!TypeOK, Beginning, App!DeletionIsComplete, App!DisclosedToBoth,
     App!Exists, App!Private, App!Mails
<1>3. \A s \in Applicants : ApplicantFits(work[s])'
  <2> SUFFICES ASSUME NEW s \in Applicants, NEW t \in App!Transaction, t = work[s]
               PROVE  ApplicantFits(t)'
    BY NextApplicantFits DEF ApplicationInv, App!TypeOK
  <2>1. ApplicantFits(t)
    BY DEF ApplicationInv
  <2>2. FitsConfirmation(t)' /\ FitsDecision(t)'
    BY <2>1 DEF ApplicantFits, FitsConfirmation, FitsDecision, Reviewed, App!Exists, App!Verifiable
  <2>3. FitsMail(t)'
    BY <2>1 DEF ApplicantFits, FitsMail, ApplicationInv, App!TypeOK, App!Transaction
  <2> QED
    BY <2>1, <2>2, <2>3 DEF ApplicantFits
<1> QED
  BY <1>1, <1>2, <1>3 DEF ApplicationInv

LEMMA WorkerMoves ==
  ASSUME ApplicationInv, NEW k \in App!Mails,
         App!CheckJob(k) \/ App!SendJob(k) \/ App!FailJob(k) \/ App!RetryMailJob(k)
  PROVE  ApplicationInv'
<1>0. /\ mail \in [App!Mails -> App!JobStatuses]
      /\ checked \subseteq App!Mails /\ sent \subseteq App!Mails /\ retried \subseteq App!Mails
      /\ Checking
      /\ {"open", "failed", "closed"} \subseteq App!JobStatuses \ {"none"}
  BY DEF ApplicationInv, App!TypeOK, App!JobStatuses
<1>1. CASE App!CheckJob(k)
  <2>1. /\ mail[k] = "open" /\ k \notin checked
        /\ UNCHANGED <<application, secret, sent, work, retried>>
    BY <1>1 DEF App!CheckJob
  <2>2. CASE App!Eligible(k)
    <3>1. checked' = checked \union {k} /\ mail' = mail
      BY <1>1, <2>2 DEF App!CheckJob
    <3>2. Checking'
      BY <1>0, <2>1, <2>2, <3>1 DEF Checking, App!Eligible
    <3>3. mail' = mail /\ App!TypeOK'
      BY <2>1, <3>1 DEF ApplicationInv, App!TypeOK
    <3>4. Beginning' /\ App!DeletionIsComplete' /\ App!DisclosedToBoth'
      BY <2>1, <3>1 DEF ApplicationInv, Beginning, App!DeletionIsComplete, App!DisclosedToBoth, App!Exists
    <3>5. \A s \in Applicants : ApplicantFits(work[s])'
      BY <2>1, <3>1 DEF ApplicationInv, ApplicantFits, FitsConfirmation, FitsDecision, FitsMail, Reviewed,
         App!Exists, App!Verifiable
    <3> QED
      BY <3>2, <3>3, <3>4, <3>5 DEF ApplicationInv
  <2>3. CASE ~App!Eligible(k)
    <3>1. checked' = checked /\ mail' = [mail EXCEPT ![k] = "closed"]
      BY <1>1, <2>3 DEF App!CheckJob
    <3>2. Checking'
      BY <1>0, <2>1, <3>1 DEF Checking, App!Eligible
    <3> QED
      BY <1>0, <2>1, <3>1, <3>2, ApplicationJobMoves
  <2> QED
    BY <2>2, <2>3
<1>2. CASE App!SendJob(k)
  <2>1. checked' = checked \ {k} /\ UNCHANGED <<application, secret, work, retried>>
    BY <1>2 DEF App!SendJob
  <2>2. CASE mail[k] = "open"
    <3>1. sent' = sent \union {k} /\ mail' = [mail EXCEPT ![k] = "closed"]
      BY <1>2, <2>2 DEF App!SendJob
    <3>2. Checking'
      BY <1>0, <2>1, <3>1 DEF Checking, App!Eligible
    <3> QED
      BY <1>0, <2>1, <2>2, <3>1, <3>2, ApplicationJobMoves
  <2>3. CASE mail[k] # "open"
    <3>1. UNCHANGED <<sent, mail>>
      BY <1>2, <2>3 DEF App!SendJob
    <3>2. Checking' /\ App!TypeOK'
      BY <1>0, <2>1, <3>1 DEF ApplicationInv, App!TypeOK, Checking, App!Eligible
    <3>4. Beginning' /\ App!DeletionIsComplete' /\ App!DisclosedToBoth'
      BY <2>1, <3>1 DEF ApplicationInv, Beginning, App!DeletionIsComplete, App!DisclosedToBoth, App!Exists
    <3>5. \A s \in Applicants : ApplicantFits(work[s])'
      BY <2>1, <3>1 DEF ApplicationInv, ApplicantFits, FitsConfirmation, FitsDecision, FitsMail, Reviewed,
         App!Exists, App!Verifiable
    <3> QED
      BY <3>2, <3>4, <3>5 DEF ApplicationInv
  <2> QED
    BY <2>2, <2>3
<1>3. CASE App!FailJob(k)
  <2>1. /\ mail[k] = "open" /\ checked' = checked \ {k}
        /\ mail' = [mail EXCEPT ![k] = "failed"]
        /\ UNCHANGED <<application, secret, sent, work, retried>>
    BY <1>3 DEF App!FailJob
  <2>2. Checking'
    BY <1>0, <2>1 DEF Checking, App!Eligible
  <2> QED
    BY <1>0, <2>1, <2>2, ApplicationJobMoves
<1>4. CASE App!RetryMailJob(k)
  <2>1. /\ mail[k] = "failed" /\ mail' = [mail EXCEPT ![k] = "open"]
        /\ retried' = IF \E r \in Applicants : work[r].kind = "withdrawn" /\ work[r].at = "row"
                      THEN retried \union {k} ELSE retried
        /\ UNCHANGED <<application, secret, checked, sent, work>>
    BY <1>4 DEF App!RetryMailJob
  <2>2. Checking'
    BY <1>0, <2>1 DEF Checking, App!Eligible
  <2> QED
    BY <1>0, <2>1, <2>2, ApplicationJobMoves
<1> QED
  BY <1>1, <1>2, <1>3, <1>4
-----------------------------------------------------------------------------
(* The inductive invariant is kept by every step. *)

LEMMA ApplicationsStep ==
  ASSUME ApplicationInv, App!Next PROVE ApplicationInv'
<1>1. CASE App!SubmitApplication
  BY <1>1, Submission
<1>2. ASSUME NEW r \in Applicants,
             \/ App!ConfirmApplicationReceipt(r) \/ App!DeleteApplication(r)
             \/ \E status \in {"open", "withdrawn"} : App!ChangeApplicationStatus(r, status)
      PROVE  ApplicationInv'
  <2>1. /\ {"confirm", "delete", "open", "withdrawn"} \subseteq App!Kinds \ {"none"}
        /\ "token" \in App!Statements /\ "lock" \in App!Statements
    BY DEF App!Kinds, App!Statements
  <2>2. CASE App!ConfirmApplicationReceipt(r)
    BY <2>1, <2>2, ApplicantBegins DEF App!ConfirmApplicationReceipt
  <2>3. CASE App!DeleteApplication(r)
    BY <2>1, <2>3, ApplicantBegins DEF App!DeleteApplication
  <2>4. ASSUME NEW status \in {"open", "withdrawn"}, App!ChangeApplicationStatus(r, status)
        PROVE  ApplicationInv'
    BY <2>1, <2>4, ApplicantBegins DEF App!ChangeApplicationStatus
  <2> QED
    BY <1>2, <2>2, <2>3, <2>4
<1>3. ASSUME NEW r \in Applicants, App!Progress(r) \/ App!Abort(r)
      PROVE  ApplicationInv'
  BY <1>3, SpendingToken, VerifyingAddress, ConfirmingCommits, LockingApplication,
     TouchingJobs, DecisionCommits, DeletionCommits, ApplicantEnds DEF App!Progress, App!Abort
<1>4. ASSUME NEW k \in App!Mails,
             App!CheckJob(k) \/ App!SendJob(k) \/ App!FailJob(k) \/ App!RetryMailJob(k)
      PROVE  ApplicationInv'
  BY <1>4, WorkerMoves
<1> QED
  BY <1>1, <1>2, <1>3, <1>4 DEF App!Next

LEMMA ApplicationsRest ==
  ASSUME ApplicationInv, UNCHANGED applicationVars PROVE ApplicationInv'
<1>1. UNCHANGED <<application, secret, mail, checked, sent, work, retried>>
  BY DEF applicationVars
<1>2. App!TypeOK' /\ Beginning' /\ Checking' /\ App!DisclosedToBoth' /\ App!DeletionIsComplete'
  BY <1>1 DEF ApplicationInv, App!TypeOK, Beginning, Checking, App!DisclosedToBoth,
     App!DeletionIsComplete, App!Exists, App!Eligible
<1>3. \A s \in Applicants : ApplicantFits(work[s])'
  BY <1>1 DEF ApplicationInv, ApplicantFits, FitsConfirmation, FitsDecision, FitsMail, Reviewed,
     App!Exists, App!Verifiable
<1> QED
  BY <1>2, <1>3 DEF ApplicationInv

LEMMA ApplicationsBegin ==
  ASSUME App!Init PROVE ApplicationInv
<1>1. App!TypeOK
  BY IdleApplicant, SMT DEF App!Init, App!TypeOK, App!Application, App!JobStatuses
<1>2. Beginning /\ Checking /\ App!DisclosedToBoth /\ App!DeletionIsComplete
  BY DEF App!Init, Beginning, Checking, App!DisclosedToBoth, App!DeletionIsComplete, App!Exists
<1>3. \A s \in Applicants : ApplicantFits(work[s])
  BY IdleApplicantFits DEF App!Init
<1> QED
  BY <1>1, <1>2, <1>3 DEF ApplicationInv
-----------------------------------------------------------------------------
(* What a step of an application may do. *)

\* Only a deletion changes the status of an application that was withdrawn: a
\* decision finds it open, because nobody else has had the row since it looked.
LEMMA WithdrawnStaysWithdrawn ==
  ASSUME ApplicationInv, App!Next, application.status = "withdrawn"
  PROVE  application'.status \in {"withdrawn", "deleted"}
<1>1. ~App!SubmitApplication
  BY DEF App!SubmitApplication
<1>2. ASSUME NEW r \in Applicants, App!ConfirmCommits(r) PROVE UNCHANGED application
  <2>1. work[r].at # "row"
    BY <1>2 DEF ApplicationInv, ApplicantFits, FitsConfirmation, App!ConfirmCommits, App!Verifiable
  <2> QED
    BY <1>2, <2>1 DEF App!ConfirmCommits
<1>3. ASSUME NEW r \in Applicants PROVE ~App!StatusCommits(r)
  <2>1. ApplicantFits(work[r])
    BY DEF ApplicationInv
  <2> QED
    BY <2>1 DEF ApplicantFits, FitsDecision, Reviewed, App!StatusCommits
<1>4. ASSUME NEW r \in Applicants, App!DeleteCommits(r) PROVE application'.status = "deleted"
  BY <1>4 DEF App!DeleteCommits, ApplicationInv, App!TypeOK, App!Application
<1>5. \/ UNCHANGED application
      \/ \E r \in Applicants : App!DeleteCommits(r)
  BY <1>1, <1>2, <1>3
     DEF App!Next, App!Progress, App!ConfirmApplicationReceipt, App!DeleteApplication,
         App!ChangeApplicationStatus, App!Begin, App!ConsumeToken, App!VerifyAddress,
         App!LockApplication, App!TouchJobs, App!Abort, App!Ends, App!Moves, App!database,
         App!CheckJob, App!SendJob, App!FailJob, App!RetryMailJob
<1> QED
  BY <1>4, <1>5

\* The worker sends what it has checked and what is still open.
LEMMA SendingIsWanted ==
  ASSUME ApplicationInv, App!Next, NEW k \in sent' \ sent
  PROVE  \/ application.status = "withdrawn" /\ k \in retried
         \/ application.status = "open" /\ (k \in App!Private => application.verified)
<1>1. PICK j \in App!Mails : App!SendJob(j)
  BY DEF App!Next, App!Progress, App!SubmitApplication, App!ConfirmApplicationReceipt,
         App!DeleteApplication, App!ChangeApplicationStatus, App!Begin, App!ConsumeToken,
         App!VerifyAddress, App!ConfirmCommits, App!LockApplication, App!TouchJobs,
         App!StatusCommits, App!DeleteCommits, App!Abort, App!Ends, App!Moves, App!worker,
         App!CheckJob, App!FailJob, App!RetryMailJob
<1>2. j = k /\ k \in checked /\ mail[k] = "open"
  BY <1>1 DEF App!SendJob
<1>3. \/ application.status = "withdrawn" /\ k \in retried
      \/ App!Eligible(k)
  BY <1>2 DEF ApplicationInv, Checking
<1>4. k \in App!Private => k # "verification"
  BY DEF App!Private
<1> QED
  BY <1>3, <1>4, Zenon DEF App!Eligible
-----------------------------------------------------------------------------
(* The community. *)

CommunityInv == SubscriptionInv /\ ApplicationInv

\* A step is about subscriptions or about applications.
LEMMA OneOfTwo ==
  ASSUME [CommunityNext]_communityVars
  PROVE  /\ [Next]_vars /\ (App!Next \/ UNCHANGED applicationVars)
         /\ UNCHANGED vars \/ UNCHANGED applicationVars
BY DEF CommunityNext, Subscribing, Applying, communityVars, subscriptionVars, applicationVars

LEMMA CommunityBegins == CommunityInit => CommunityInv
BY SubscriptionsBegin, ApplicationsBegin DEF CommunityInit, CommunityInv

LEMMA CommunityStep ==
  CommunityInv /\ [CommunityNext]_communityVars => CommunityInv'
BY OneOfTwo, SubscriptionsStep, ApplicationsStep, ApplicationsRest DEF CommunityInv

LEMMA CommunityIsInvariant == CommunitySpec => []CommunityInv
BY CommunityBegins, CommunityStep, PTL DEF CommunitySpec

\* However the requests interleave, the tables and the transactions stay well
\* formed, no row is locked by two transactions, and one link at most confirms
\* the address (actions.ts:110-127).
THEOREM CommunityTyped == CommunitySpec => []CommunityTypeOK
<1>1. CommunityInv => CommunityTypeOK
  BY DEF CommunityInv, SubscriptionInv, ApplicationInv, CommunityTypeOK, OneLink
<1> QED
  BY <1>1, CommunityIsInvariant, PTL

\* A deleted application leaves no token and no mail, whatever was under way
\* when it was deleted (admin.ts:205).
THEOREM DeletionsAreComplete == CommunitySpec => []DeletionIsComplete
<1>1. CommunityInv => DeletionIsComplete
  BY DEF CommunityInv, ApplicationInv, DeletionIsComplete
<1> QED
  BY <1>1, CommunityIsInvariant, PTL

\* An application has its copy and its notification exactly when its address
\* is verified (actions.ts:259-262).
THEOREM DisclosureIsMutual == CommunitySpec => []DisclosedToBoth
<1>1. CommunityInv => DisclosedToBoth
  BY DEF CommunityInv, ApplicationInv, DisclosedToBoth
<1> QED
  BY <1>1, CommunityIsInvariant, PTL

\* After an opt-out no mail to the subscriber is open but what was queued or
\* retried once it had looked (revocation.ts:9-12).
THEOREM OptOutEndsMail == CommunitySpec => []OpenMailIsWanted
<1>1. CommunityInv => OpenMailIsWanted
  BY DEF CommunityInv, SubscriptionInv
<1> QED
  BY <1>1, CommunityIsInvariant, PTL

\* No decision of an editor revives an application that was withdrawn
\* (admin.ts:170), and mail about an application is sent only while it is
\* wanted (worker.ts:350-368).
THEOREM WithdrawalsAreFinal == CommunitySpec => WithdrawalIsFinal
<1>1. CommunityInv /\ [CommunityNext]_communityVars =>
        [application.status = "withdrawn"
           => application'.status \in {"withdrawn", "deleted"}]_(App!vars)
  BY OneOfTwo, WithdrawnStaysWithdrawn DEF CommunityInv, applicationVars, App!vars
<1>2. CommunityInv /\ [CommunityNext]_communityVars =>
        [\A k \in sent' \ sent :
           \/ application.status = "withdrawn" /\ k \in retried
           \/ /\ application.status = "open"
              /\ k \in App!Private => application.verified]_(App!vars)
  BY OneOfTwo, SendingIsWanted DEF CommunityInv, applicationVars, App!vars
<1> QED
  BY <1>1, <1>2, CommunityIsInvariant, PTL
     DEF CommunitySpec, WithdrawalIsFinal, App!WithdrawalIsFinal, App!SentWhileWanted

\* Whoever's link is used up by his request found it unused (tokens.ts:52).
THEOREM LinksAreUsedOnce == CommunitySpec => UsedOnce
<1>1. CommunityInv /\ [CommunityNext]_communityVars =>
        [\A r \in Requests :
           (tx[r].kind \in Purposes /\ tx'[r].kind = "none" /\ token' # token)
             => token[tx[r].token] = tx[r].kind]_vars
  BY OneOfTwo, LinkIsUsedOnce DEF CommunityInv
<1> QED
  BY <1>1, CommunityIsInvariant, PTL DEF CommunitySpec, UsedOnce

\* Requests that interleave statement by statement implement double opt-in
\* (actions.ts:102, 153-160, 180-195).
THEOREM SubscriptionsImplementDoubleOptIn == CommunitySpec => ImplementsDoubleOptIn
<1>1. CommunityInit => OptIn!OptInInit
  BY OptInBegins DEF CommunityInit
<1>2. CommunityInv /\ [CommunityNext]_communityVars => [OptIn!OptInNext]_(OptIn!optInVars)
  BY OneOfTwo, OptInStep DEF CommunityInv
<1> QED
  BY <1>1, <1>2, CommunityIsInvariant, PTL
     DEF CommunitySpec, ImplementsDoubleOptIn, OptIn!OptInSpec
=============================================================================
