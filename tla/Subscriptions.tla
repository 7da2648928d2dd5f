---------------------------- MODULE Subscriptions ----------------------------
(***************************************************************************)
(* The newsletter subscription of one address (src/src/lib/community):     *)
(* requests to subscribe, to confirm, to unsubscribe and to remove the     *)
(* subscriber, and publications and pushes that queue mail to him.         *)
(*                                                                         *)
(* Every request is one READ COMMITTED transaction and every statement of  *)
(* it a step.  An UPDATE finds its rows in what is committed when it       *)
(* begins, waits for each row another transaction has written, and looks   *)
(* at the row again before it writes it.  Writes are visible to others     *)
(* after the commit.  Mail to confirm an address may arrive at any time    *)
(* and a link of it may have expired; counters of the rate limits, which   *)
(* only keep requests apart, are left out.                                 *)
(***************************************************************************)
CONSTANTS
  Requests,  \* as many requests as run at once
  Tokens,    \* as many as are alive or referred to at once
  NoToken,
  Posts, NoPost

ASSUME NoTokenAssumption == NoToken \notin Tokens

ASSUME NoPostAssumption == NoPost \notin Posts

VARIABLES
  subscriber,  \* status of the row of community_subscribers, or "none"
  token,       \* rows of community_action_tokens: purpose, "dead" once used
  job,         \* the mail job of each post to the subscriber, and its link
  mailed,      \* tokens whose mail was delivered
  tx,          \* the transaction of each request
  overtaken    \* history: posts queued after an opt-out closed the others

vars == <<subscriber, token, job, mailed, tx, overtaken>>

Statuses == {"none", "pending", "confirmed", "unsubscribed"}
Purposes == {"confirm", "unsubscribe"}

Kinds == {"none", "subscribe", "confirm", "unsubscribe", "remove", "publish"}
Statements == {"token", "subscriber", "jobs", "select", "invalidate", "commit",
               "recipients", "queue"}

\* subscriber: what is written to the row, if anything; used: tokens it has
\* used up; todo: tokens its UPDATE has yet to look at; closed: jobs it has
\* suppressed.
Transaction == [kind : Kinds, at : Statements, token : Tokens \union {NoToken},
                post : Posts \union {NoPost},
                subscriber : Statuses, used : SUBSET Tokens,
                todo : SUBSET Tokens, closed : SUBSET Posts]
NoTransaction == [kind |-> "none", at |-> "commit", token |-> NoToken,
                  post |-> NoPost, subscriber |-> "none",
                  used |-> {}, todo |-> {}, closed |-> {}]

Job == [status : {"none", "open", "failed", "closed"},
        link : Tokens \union {NoToken}]
NoJob == [status |-> "none", link |-> NoToken]

\* Row locks are exclusive, and a job that may be sent has a link.
TypeOK ==
  /\ subscriber \in Statuses
  /\ token \in [Tokens -> Purposes \union {"dead"}]
  /\ job \in [Posts -> Job]
  /\ \A p \in Posts : job[p].status \in {"open", "failed"} <=>
                        job[p].link # NoToken
  /\ mailed \subseteq Tokens
  /\ tx \in [Requests -> Transaction]
  /\ overtaken \subseteq Posts
  /\ \A r, s \in Requests : r # s =>
       /\ tx[r].used \intersect tx[s].used = {}
       /\ "none" \in {tx[r].subscriber, tx[s].subscriber}

Init ==
  /\ subscriber = "none"
  /\ token = [t \in Tokens |-> "dead"]
  /\ job = [p \in Posts |-> NoJob]
  /\ mailed = {}
  /\ tx = [r \in Requests |-> NoTransaction]
  /\ overtaken = {}

End(r) == tx' = [tx EXCEPT ![r] = NoTransaction]

\* Another transaction has written the row and has not ended.
SubscriberLocked(r) == \E s \in Requests \ {r} : tx[s].subscriber # "none"
TokenLocked(r, t) == \E s \in Requests \ {r} : t \in tx[s].used

\* A token nobody has heard of: the code draws 256 random bits.
Fresh(t) ==
  /\ token[t] = "dead"
  /\ \A r \in Requests :
       t # tx[r].token /\ t \notin tx[r].used \union tx[r].todo
  /\ \A p \in Posts : job[p].link # t
-----------------------------------------------------------------------------
(* Requests begin. *)

Begin(r, kind, at, t, p) ==
  /\ tx[r].kind = "none"
  /\ tx' = [tx EXCEPT ![r] = [NoTransaction EXCEPT
              !.kind = kind, !.at = at, !.token = t, !.post = p]]
  /\ UNCHANGED <<subscriber, token, job, mailed, overtaken>>

Subscribe(r) == Begin(r, "subscribe", "subscriber", NoToken, NoPost)

\* The links of mail that has arrived.  A used link changes nothing.
ConfirmSubscription(r, t) ==
  token[t] = "confirm" /\ Begin(r, "confirm", "token", t, NoPost)

Unsubscribe(r, t) ==
  /\ token[t] = "unsubscribe"
  /\ t \in mailed
  /\ Begin(r, "unsubscribe", "token", t, NoPost)

RemoveSubscriber(r) ==
  /\ subscriber # "none"
  /\ Begin(r, "remove", "subscriber", NoToken, NoPost)

\* A publication or a push.  It holds the row of its document, so there is
\* one at a time for a post.
Publish(r, p) ==
  /\ \A s \in Requests : tx[s].post # p
  /\ Begin(r, "publish", "recipients", NoToken, p)
-----------------------------------------------------------------------------
(* Their statements. *)

Moves(r, new) ==
  /\ tx' = [tx EXCEPT ![r] = new]
  /\ UNCHANGED <<subscriber, token, job, mailed, overtaken>>

Ends(r) == Moves(r, NoTransaction)

\* Fault variant: the token is read, and used up only with the commit.
ReadToken(r) ==
  /\ tx[r].at = "token"
  /\ \/ /\ token[tx[r].token] = tx[r].kind
        /\ Moves(r, [tx[r] EXCEPT !.at = "subscriber"])
     \/ Ends(r)

\* consumeCommunityToken: UPDATE ... WHERE used_at IS NULL and not expired.
ConsumeToken(r) ==
  /\ tx[r].at = "token"
  /\ ~TokenLocked(r, tx[r].token)
  /\ \/ /\ token[tx[r].token] = tx[r].kind
        /\ Moves(r, [tx[r] EXCEPT !.at = "subscriber", !.used = {tx[r].token}])
     \/ /\ tx[r].kind = "confirm" \/ token[tx[r].token] # tx[r].kind
        /\ Ends(r)

\* Fault variant: the early return leaves the transaction open.
SubscribeStaysOpen(r) ==
  /\ tx[r].kind = "subscribe" /\ tx[r].at = "subscriber"
  /\ ~SubscriberLocked(r)
  /\ IF subscriber = "confirmed"
     THEN Moves(r, [tx[r] EXCEPT !.subscriber = "confirmed"])
     ELSE Moves(r, [tx[r] EXCEPT !.subscriber = "pending", !.at = "select"])

\* Fault variant: ON CONFLICT DO UPDATE without its WHERE.
UpsertAnyone(r) ==
  /\ tx[r].kind = "subscribe" /\ tx[r].at = "subscriber"
  /\ ~SubscriberLocked(r)
  /\ Moves(r, [tx[r] EXCEPT !.subscriber = "pending", !.at = "select"])

\* INSERT ... ON CONFLICT DO UPDATE ... WHERE status <> 'confirmed'.
UpsertSubscriber(r) ==
  /\ tx[r].kind = "subscribe" /\ tx[r].at = "subscriber"
  /\ ~SubscriberLocked(r)
  /\ IF subscriber = "confirmed"
     THEN Ends(r)
     ELSE Moves(r, [tx[r] EXCEPT !.subscriber = "pending", !.at = "select"])

\* UPDATE ... WHERE status <> 'unsubscribed', which waits for no row it does
\* not want; the token is spent anyway.
ConfirmSubscriber(r) ==
  /\ tx[r].kind = "confirm" /\ tx[r].at = "subscriber"
  /\ \/ /\ subscriber = "unsubscribed"
        /\ Moves(r, [tx[r] EXCEPT !.at = "commit"])
     \/ /\ subscriber # "unsubscribed" /\ ~SubscriberLocked(r)
        /\ Moves(r, [tx[r] EXCEPT !.subscriber = "confirmed", !.at = "commit"])

DropSubscriber(r) ==
  /\ tx[r].kind \in {"unsubscribe", "remove"} /\ tx[r].at = "subscriber"
  /\ ~SubscriberLocked(r)
  /\ Moves(r, [tx[r] EXCEPT !.subscriber = "unsubscribed", !.at = "jobs"])

\* Fault variant: open mail is left to the worker.
SuppressNothing(r) ==
  /\ tx[r].at = "jobs"
  /\ Moves(r, [tx[r] EXCEPT !.at = "select"])

\* suppressPostMailJobs for the subscriber.
SuppressJobs(r) ==
  /\ tx[r].at = "jobs"
  /\ Moves(r, [tx[r] EXCEPT !.at = "select",
                 !.closed = {p \in Posts : job[p].status = "open"}])

\* Fault variant: only links of the other purpose are invalidated.
SelectUnsubscribeTokens(r) ==
  /\ tx[r].at = "select"
  /\ Moves(r, [tx[r] EXCEPT !.at = "invalidate",
       !.todo = {t \in Tokens \ tx[r].used : token[t] = "unsubscribe"}])

\* UPDATE ... SET used_at WHERE subscriber_id = ... AND used_at IS NULL finds
\* its rows,
SelectTokens(r) ==
  /\ tx[r].at = "select"
  /\ Moves(r, [tx[r] EXCEPT !.at = "invalidate",
       !.todo = {t \in Tokens \ tx[r].used : token[t] # "dead"}])

\* and writes each of them that is still unused.
InvalidateToken(r, t) ==
  /\ tx[r].at = "invalidate"
  /\ t \in tx[r].todo
  /\ ~TokenLocked(r, t)
  /\ Moves(r, [tx[r] EXCEPT !.todo = @ \ {t},
                 !.used = IF token[t] = "dead" THEN @ ELSE @ \union {t}])

\* The writes of a transaction, and the token it issues if it issues one.
Committed(r, issued, purpose) ==
  /\ subscriber' = IF tx[r].subscriber = "none" THEN subscriber
                   ELSE tx[r].subscriber
  /\ token' = [t \in Tokens |-> IF t = issued THEN purpose
                                ELSE IF t \in tx[r].used THEN "dead"
                                ELSE token[t]]
  /\ mailed' = mailed \ {issued}
  /\ End(r)

\* issueCommunityToken, enqueueMail and commit.
SubscribeCommits(r) ==
  /\ tx[r].kind = "subscribe" /\ tx[r].at = "invalidate" /\ tx[r].todo = {}
  /\ \E t \in Tokens : Fresh(t) /\ Committed(r, t, "confirm")
  /\ UNCHANGED <<job, overtaken>>

ConfirmCommits(r) ==
  /\ tx[r].kind = "confirm" /\ tx[r].at = "commit"
  /\ Committed(r, NoToken, "dead")
  /\ UNCHANGED <<job, overtaken>>

OptOutCommits(r) ==
  /\ tx[r].kind \in {"unsubscribe", "remove"}
  /\ tx[r].at = "invalidate" /\ tx[r].todo = {}
  /\ Committed(r, NoToken, "dead")
  /\ job' = [p \in Posts |-> IF p \in tx[r].closed
                             THEN [status |-> "closed", link |-> NoToken]
                             ELSE job[p]]
  /\ UNCHANGED overtaken

\* queuePostSnapshot reads the confirmed subscribers,
ReadRecipients(r) ==
  /\ tx[r].at = "recipients"
  /\ IF subscriber = "confirmed"
     THEN Moves(r, [tx[r] EXCEPT !.at = "queue"])
     ELSE Ends(r)

\* An opt-out has looked for open mail already.
OptedOut ==
  \/ subscriber # "confirmed"
  \/ \E r \in Requests : tx[r].subscriber = "unsubscribed"

\* and for a post without a job issues a link, queues the mail and commits.
PublishCommits(r) ==
  LET p == tx[r].post
  IN /\ tx[r].at = "queue"
     /\ IF job[p].status = "none"
        THEN /\ \E t \in Tokens :
                  /\ Fresh(t)
                  /\ Committed(r, t, "unsubscribe")
                  /\ job' = [job EXCEPT ![p] = [status |-> "open", link |-> t]]
             /\ overtaken' = overtaken \union (IF OptedOut THEN {p} ELSE {})
        ELSE Ends(r)

\* A rollback: mail was disabled, a statement failed, the process died, or
\* the database broke a deadlock.  An automatic mailing that is switched off
\* halfway commits, but all it leaves is a link nobody is ever sent.
Abort(r) == tx[r].kind # "none" /\ Ends(r)
-----------------------------------------------------------------------------
(* The outbox, and the administrator who retries a failed job. *)

Outbox == <<subscriber, token, tx>>

\* shouldSuppressMailJob lets the mail pass.
Deliver(p) ==
  /\ job[p].status = "open"
  /\ subscriber = "confirmed"
  /\ mailed' = mailed \union {job[p].link}
  /\ job' = [job EXCEPT ![p] = [status |-> "closed", link |-> NoToken]]
  /\ UNCHANGED <<Outbox, overtaken>>

SuppressOne(p) ==
  /\ job[p].status = "open"
  /\ subscriber # "confirmed"
  /\ job' = [job EXCEPT ![p] = [status |-> "closed", link |-> NoToken]]
  /\ UNCHANGED <<Outbox, mailed, overtaken>>

GiveUp(p) ==
  /\ job[p].status = "open"
  /\ \A r \in Requests : p \notin tx[r].closed
  /\ job' = [job EXCEPT ![p].status = "failed"]
  /\ UNCHANGED <<Outbox, mailed, overtaken>>

RetryMailJob(p) ==
  /\ job[p].status = "failed"
  /\ job' = [job EXCEPT ![p].status = "open"]
  /\ overtaken' = overtaken \union (IF OptedOut THEN {p} ELSE {})
  /\ UNCHANGED <<Outbox, mailed>>

Progress(r) ==
  \/ ConsumeToken(r) \/ UpsertSubscriber(r) \/ ConfirmSubscriber(r)
  \/ DropSubscriber(r) \/ SuppressJobs(r) \/ SelectTokens(r)
  \/ \E t \in Tokens : InvalidateToken(r, t)
  \/ SubscribeCommits(r) \/ ConfirmCommits(r) \/ OptOutCommits(r)
  \/ ReadRecipients(r) \/ PublishCommits(r)

Next ==
  \/ \E r \in Requests :
       \/ Subscribe(r) \/ RemoveSubscriber(r)
       \/ \E t \in Tokens : ConfirmSubscription(r, t) \/ Unsubscribe(r, t)
       \/ \E p \in Posts : Publish(r, p)
       \/ Progress(r) \/ Abort(r)
  \/ \E p \in Posts :
       Deliver(p) \/ SuppressOne(p) \/ GiveUp(p) \/ RetryMailJob(p)

Spec == Init /\ [][Next]_vars

\* r waits for a row that s has written.
WaitsFor(r, s) ==
  /\ r # s
  /\ \/ /\ tx[r].at = "subscriber" /\ tx[s].subscriber # "none"
        /\ tx[r].kind = "confirm" => subscriber # "unsubscribed"
     \/ tx[r].at = "token" /\ tx[r].token \in tx[s].used
     \/ /\ tx[r].at = "invalidate" /\ tx[r].todo # {}
        /\ tx[r].todo \subseteq tx[s].used

\* The database aborts one of the transactions that wait in a circle.
BreakDeadlock ==
  \E ring \in SUBSET Requests :
    /\ ring # {}
    /\ \A r \in ring : \E s \in ring : WaitsFor(r, s)
    /\ \E r \in ring : (\E s \in ring : WaitsFor(s, r)) /\ Abort(r)
-----------------------------------------------------------------------------
(* Properties. *)

OptIn == INSTANCE DoubleOptIn WITH
  Links <- Tokens, status <- subscriber,
  valid <- {t \in Tokens : token[t] = "confirm"}

\* Requests that interleave statement by statement keep the promise of double
\* opt-in: a confirmation works only through the link of the latest request,
\* and an opt-out ends that too (actions.ts:102, 153-160, 180-195).
ImplementsDoubleOptIn == OptIn!OptInSpec

\* However requests to subscribe interleave with the use of older links, one
\* link at most would confirm the address (actions.ts:110-127).
OneConfirmation ==
  \A t, u \in Tokens : token[t] = "confirm" /\ token[u] = "confirm" => t = u

\* A link is used up once, also when it is clicked twice at the same time
\* (tokens.ts:52).
UsedOnce ==
  [][\A r \in Requests :
       (tx[r].kind \in Purposes /\ tx'[r].kind = "none" /\ token' # token)
         => token[tx[r].token] = tx[r].kind]_vars

\* After an opt-out no mail is open except what a publication or a retry
\* queued once the opt-out had looked (revocation.ts:9-12).
OpenMailIsWanted ==
  \A p \in Posts :
    job[p].status = "open" /\ subscriber # "confirmed" => p \in overtaken

\* The link in the mail a subscriber gets can be used
\* (src/app/(site)/subscribe/page.tsx:26).
LinkInMailWorks ==
  [][\A t \in mailed' \ mailed : token[t] = "unsubscribe"]_vars
=============================================================================
