--------------------------- MODULE CommunityPanel ----------------------------
(***************************************************************************)
(* The page for subscriptions and applications                             *)
(* (components/admin/CommunityManager.tsx): an editor previews the push of *)
(* an article, confirms what the dialog shows, and the server queues mail  *)
(* for that snapshot only (src/lib/community/admin.ts, publication.ts).    *)
(* Articles are republished and withdrawn, answers lost, meanwhile.        *)
(***************************************************************************)
EXTENDS Naturals, FiniteSets
CONSTANTS Posts, Subscribers, None,
          MaxSnapshot  \* bound: publications of an article

VARIABLES
  public,      \* the public snapshot of each article, numbered, 0 for none
  published,   \* publications so far of each
  confirmed,   \* the subscribers that get mail
  application, \* the status of one application
  jobs,        \* the mail queued: article, subscriber and snapshot
  role,        \* of the user of the page
  selected,    \* the article chosen in the form
  preview,     \* the push the dialog asks to confirm
  removal,     \* the removal another dialog asks to confirm
  call,        \* the call that runs: the page is busy
  accepted     \* history: what the user has confirmed

vars == <<public, published, confirmed, application, jobs, role, selected,
          preview, removal, call, accepted>>
server == <<public, published, confirmed, application, jobs>>

Snapshots == 0 .. MaxSnapshot
Preview == [post : Posts, snapshot : Snapshots, count : Nat]
Removals == {"application"} \union Subscribers
\* "unconfirmed" is an application whose address was not confirmed yet; two
\* statuses stand for the four that can still be changed.
Chosen == {"pending", "reviewing", "withdrawn"}
Statuses == Chosen \union {"unconfirmed", "deleted"}
Call == [op : {"preview", "push", "status", "remove"}, post : Posts \union {None},
         snapshot : Snapshots, target : Removals \union Statuses \union {None},
         at : {"sent", "checked", "done", "refused"},
         answer : Preview \union {None}]

TypeOK ==
  /\ public \in [Posts -> Snapshots] /\ published \in [Posts -> Snapshots]
  /\ confirmed \subseteq Subscribers
  /\ application \in Statuses
  /\ jobs \subseteq [post : Posts, to : Subscribers, snapshot : Snapshots]
  /\ role \in {"admin", "editor"}
  /\ selected \in Posts \union {None}
  /\ preview \in Preview \union {None}
  /\ removal \in Removals \union {None}
  /\ call \in Call \union {None}
  /\ accepted \subseteq Posts \X Snapshots

Init ==
  /\ public = [p \in Posts |-> 0] /\ published = public
  /\ confirmed = Subscribers
  /\ application = "unconfirmed"
  /\ jobs = {}
  /\ role \in {"admin", "editor"}
  /\ selected = None /\ preview = None /\ removal = None /\ call = None
  /\ accepted = {}

Busy == call # None
NoDialog == preview = None /\ removal = None

--------------------------------------------------------------------------
\* The page.  A dialog covers what is behind it.

Select(p) ==
  /\ NoDialog
  /\ selected' = p
  /\ UNCHANGED <<server, role, preview, removal, call, accepted>>

Start(op, p, n, t) ==
  /\ ~Busy
  /\ call' = [op |-> op, post |-> p, snapshot |-> n, target |-> t,
              at |-> "sent", answer |-> None]

Prepare ==
  /\ NoDialog /\ selected # None
  /\ Start("preview", selected, 0, None)
  /\ UNCHANGED <<server, role, selected, preview, removal, accepted>>

Prepared ==
  /\ Busy /\ call.op = "preview" /\ call.at = "done"
  /\ preview' = call.answer
  /\ call' = None
  /\ UNCHANGED <<server, role, selected, removal, accepted>>

CancelPush ==
  /\ preview # None
  /\ preview' = None
  /\ UNCHANGED <<server, role, selected, removal, call, accepted>>

\* push(): the dialog closes, and its snapshot goes with the call.
Push ==
  /\ preview # None /\ preview.count > 0
  /\ Start("push", preview.post, preview.snapshot, None)
  /\ accepted' = accepted \union {<<preview.post, preview.snapshot>>}
  /\ preview' = None
  /\ UNCHANGED <<server, role, selected, removal>>

ChooseStatus(s) ==
  /\ NoDialog
  /\ Start("status", None, 0, s)
  /\ UNCHANGED <<server, role, selected, preview, removal, accepted>>

AskRemoval(x) ==
  /\ role = "admin" /\ NoDialog /\ ~Busy
  /\ removal' = x
  /\ UNCHANGED <<server, role, selected, preview, call, accepted>>

CancelRemoval ==
  /\ removal # None
  /\ removal' = None
  /\ UNCHANGED <<server, role, selected, preview, call, accepted>>

Remove ==
  /\ removal # None
  /\ Start("remove", None, 0, removal)
  /\ removal' = None
  /\ UNCHANGED <<server, role, selected, preview, accepted>>

\* run(): a success refreshes the page's data.
Answered ==
  /\ Busy /\ call.op # "preview" /\ call.at \in {"done", "refused"}
  /\ call' = None
  /\ UNCHANGED <<server, role, selected, preview, removal, accepted>>

\* A refused preview, or no answer, however far the server got.
Failed ==
  /\ Busy /\ (call.op # "preview" \/ call.at # "done")
  /\ call' = None
  /\ UNCHANGED <<server, role, selected, preview, removal, accepted>>

--------------------------------------------------------------------------
\* The server.

page == <<role, selected, preview, removal, accepted>>
Serving(op, at) == Busy /\ call.op = op /\ call.at = at
Finish(at) == call' = [call EXCEPT !.at = at]

\* Confirmed subscribers that have no mail about the article yet.
Eligible(p) == {s \in confirmed : ~\E j \in jobs : j.post = p /\ j.to = s}

PreviewManualPush ==
  /\ Serving("preview", "sent")
  /\ IF public[call.post] = 0 THEN Finish("refused")
     ELSE call' = [call EXCEPT !.at = "done",
            !.answer = [post |-> call.post, snapshot |-> public[call.post],
                        count |-> Cardinality(Eligible(call.post))]]
  /\ UNCHANGED <<server, page>>

\* A first look outside the transaction.
SendManualPush ==
  /\ Serving("push", "sent")
  /\ Finish(IF public[call.post] = call.snapshot THEN "checked" ELSE "refused")
  /\ UNCHANGED <<server, page>>

\* Fault variant: the snapshot is not compared again.
QueueUnchecked ==
  /\ Serving("push", "checked")
  /\ jobs' = jobs \union
       {[post |-> call.post, to |-> s, snapshot |-> public[call.post]] :
          s \in Eligible(call.post)}
  /\ Finish("done")
  /\ UNCHANGED <<public, published, confirmed, application, page>>

\* The second, with the document's row locked, and the mail of everybody.
QueuePostSnapshot ==
  /\ Serving("push", "checked")
  /\ IF public[call.post] = call.snapshot
       THEN /\ jobs' = jobs \union
                 {[post |-> call.post, to |-> s, snapshot |-> public[call.post]] :
                    s \in Eligible(call.post)}
            /\ Finish("done")
       ELSE Finish("refused") /\ UNCHANGED jobs
  /\ UNCHANGED <<public, published, confirmed, application, page>>

\* Neither before the applicant has confirmed the address nor after a
\* withdrawal.
ServeStatus ==
  /\ Serving("status", "sent")
  /\ IF application \in {"unconfirmed", "withdrawn", "deleted"}
       THEN Finish("refused") /\ UNCHANGED application
       ELSE Finish("done") /\ application' = call.target
  /\ UNCHANGED <<public, published, confirmed, jobs, page>>

ServeRemoval ==
  /\ Serving("remove", "sent")
  /\ IF call.target = "application"
       THEN /\ Finish(IF application = "deleted" THEN "refused" ELSE "done")
            /\ application' = "deleted"
            /\ UNCHANGED confirmed
       ELSE /\ Finish("done")
            /\ confirmed' = confirmed \ {call.target}
            /\ UNCHANGED application
  /\ UNCHANGED <<public, published, jobs, page>>

\* Others publish, publish again and withdraw.
Publish(p) ==
  /\ published[p] < MaxSnapshot
  /\ published' = [published EXCEPT ![p] = @ + 1]
  /\ public' = [public EXCEPT ![p] = published[p] + 1]
  /\ UNCHANGED <<confirmed, application, jobs, page, call>>

Unpublish(p) ==
  /\ public[p] # 0
  /\ public' = [public EXCEPT ![p] = 0]
  /\ UNCHANGED <<published, confirmed, application, jobs, page, call>>

\* The applicant follows the link of the mail.
ConfirmApplication ==
  /\ application = "unconfirmed"
  /\ application' = "pending"
  /\ UNCHANGED <<public, published, confirmed, jobs, page, call>>

Next ==
  \/ \E p \in Posts : Select(p) \/ Publish(p) \/ Unpublish(p)
  \/ Prepare \/ Prepared \/ CancelPush \/ Push
  \/ \E s \in Chosen : ChooseStatus(s)
  \/ \E x \in Removals : AskRemoval(x)
  \/ CancelRemoval \/ Remove \/ Answered \/ Failed
  \/ PreviewManualPush \/ SendManualPush \/ QueuePostSnapshot
  \/ ServeStatus \/ ServeRemoval \/ ConfirmApplication

Spec == Init /\ [][Next]_vars

--------------------------------------------------------------------------
\* What is queued is what somebody has seen in the dialog and confirmed, and
\* nobody gets two mails about an article, although the article changes
\* between preview, confirmation and push and an unanswered push is repeated.
PushedAsConfirmed ==
  /\ \A j \in jobs : <<j.post, j.snapshot>> \in accepted
  /\ \A j, k \in jobs : (j.post = k.post /\ j.to = k.to) => j = k
=============================================================================
