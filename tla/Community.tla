------------------------------ MODULE Community ------------------------------
(***************************************************************************)
(* What the public and the editors do to the community tables: requests    *)
(* about subscriptions and about applications.  The two lock no row in     *)
(* common, so each is explored by itself: "part" says which of them the    *)
(* requests are about.                                                     *)
(***************************************************************************)
EXTENDS Subscriptions
CONSTANT Applicants  \* of the requests: as many as work on one application

VARIABLES part, application, secret, mail, checked, sent, work, retried

subscriptionVars == vars
applicationVars == <<application, secret, mail, checked, sent, work, retried>>
communityVars == <<part, subscriptionVars, applicationVars>>

App == INSTANCE Applications WITH
  Requests <- Applicants, token <- secret, job <- mail, tx <- work,
  overtaken <- retried

CommunityInit ==
  /\ part \in {"subscriptions", "applications"}
  /\ Init /\ App!Init

Subscribing(A) ==
  /\ part = "subscriptions" /\ A
  /\ UNCHANGED <<part, applicationVars>>

Applying(A) ==
  /\ part = "applications" /\ A
  /\ UNCHANGED <<part, subscriptionVars>>

CommunityNext == Subscribing(Next) \/ Applying(App!Next)

\* Requests go on; those that wait for a row get it in the order they came,
\* hence strong fairness.
RequestProgress(r) ==
  \/ Subscribing(Progress(r))
  \/ r \in Applicants /\ Applying(App!Progress(r))

CommunityFairness ==
  /\ \A r \in Requests : SF_communityVars(RequestProgress(r))
  /\ WF_communityVars(Subscribing(BreakDeadlock) \/ Applying(App!BreakDeadlock))

CommunitySpec ==
  CommunityInit /\ [][CommunityNext]_communityVars /\ CommunityFairness
-----------------------------------------------------------------------------
\* The tables and the transactions are well formed; of the links of one
\* address one at most confirms it (actions.ts:110-127).
CommunityTypeOK == TypeOK /\ App!TypeOK /\ OneConfirmation

\* A deletion leaves nothing of the application in the outbox (admin.ts:205).
DeletionIsComplete == App!DeletionIsComplete

\* An application is disclosed to its owner and to the society, or to neither
\* of them (actions.ts:259-262).
DisclosedToBoth == App!DisclosedToBoth

\* A withdrawal is final, whatever other editors had read (admin.ts:170), and
\* mail about an application is sent only while it is wanted
\* (worker.ts:350-368).
WithdrawalIsFinal == App!WithdrawalIsFinal /\ App!SentWhileWanted

\* Every request is answered, although requests lock rows in opposite orders.
Open(r) == \/ tx[r].kind # "none"
           \/ r \in Applicants /\ work[r].kind # "none"
RequestsEnd == \A r \in Requests : Open(r) ~> ~Open(r)
=============================================================================
