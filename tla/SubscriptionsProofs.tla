------------------------ MODULE SubscriptionsProofs -------------------------
(***************************************************************************)
(* Theorems about Subscriptions, for any number of requests, links and     *)
(* posts.                                                                  *)
(*                                                                         *)
(* The argument: the row of the subscriber serialises the transactions     *)
(* that write it.  Whoever has locked it knows his status and sees every   *)
(* link that would confirm him (Sees), because nobody else can issue one;  *)
(* so at most one such link is ever valid, and an opt-out ends it          *)
(* (OneLink).  That is what double opt-in rests on.                        *)
(***************************************************************************)
EXTENDS Subscriptions, TLAPS

\* The links that would confirm the address are one at most, and there is one
\* only while it is pending.
OneLink ==
  /\ \A t \in Tokens : token[t] = "confirm" => subscriber = "pending"
  /\ OneConfirmation
  /\ \A t \in Tokens : token[t] # "dead" => subscriber # "none"

\* Where a transaction may be, and what it has written by then.
AskingFor(x) ==
  x.kind = "subscribe" =>
    /\ x.closed = {}
    /\ \/ x.at = "subscriber" /\ x.subscriber = "none" /\ x.used = {} /\ x.todo = {}
       \/ x.at = "select" /\ x.subscriber = "pending" /\ x.used = {} /\ x.todo = {}
       \/ x.at = "invalidate" /\ x.subscriber = "pending"

Confirming(x) ==
  x.kind = "confirm" =>
    /\ x.closed = {} /\ x.todo = {} /\ x.token \in Tokens
    /\ \/ x.at = "token" /\ x.subscriber = "none" /\ x.used = {}
       \/ x.at = "subscriber" /\ x.subscriber = "none" /\ x.used = {x.token}
       \/ x.at = "commit" /\ x.subscriber = "confirmed" /\ x.used = {x.token}

OptingOut(x) ==
  x.kind \in {"unsubscribe", "remove"} =>
    /\ x.kind = "unsubscribe" =>
         x.token \in Tokens /\ (x.at # "token" => x.token \in x.used)
    /\ \/ x.kind = "unsubscribe" /\ x.at = "token" /\ x.subscriber = "none"
          /\ x.used = {} /\ x.todo = {} /\ x.closed = {}
       \/ x.at = "subscriber" /\ x.subscriber = "none" /\ x.todo = {} /\ x.closed = {}
       \/ x.at = "jobs" /\ x.subscriber = "unsubscribed" /\ x.todo = {} /\ x.closed = {}
       \/ x.at = "select" /\ x.subscriber = "unsubscribed" /\ x.todo = {}
       \/ x.at = "invalidate" /\ x.subscriber = "unsubscribed"

Publishing(x) ==
  x.kind = "publish" =>
    /\ x.at \in {"recipients", "queue"} /\ x.post \in Posts
    /\ x.subscriber = "none" /\ x.used = {} /\ x.todo = {} /\ x.closed = {}

\* What it has read of the tables, and still holds true of them.
Sees(x) ==
  /\ x.kind \in Purposes /\ x.token \in x.used => token[x.token] = x.kind
  /\ x.kind \in {"unsubscribe", "remove"} => subscriber # "none"
  /\ x.at = "queue" => subscriber # "none"
  /\ x.subscriber = "pending" => subscriber # "confirmed"
  /\ x.at = "invalidate" =>
       \A t \in Tokens : token[t] = "confirm" => t \in x.used \union x.todo
  /\ x.subscriber = "unsubscribed" /\ x.at \in {"select", "invalidate"} =>
       \A p \in Posts : job[p].status = "open" => p \in x.closed \union overtaken

Fits(x) ==
  /\ x.kind = "none" => x = NoTransaction
  /\ AskingFor(x) /\ Confirming(x) /\ OptingOut(x) /\ Publishing(x)
  /\ Sees(x)

\* The inductive invariant.
SubscriptionInv ==
  TypeOK /\ OneLink /\ OpenMailIsWanted /\ \A r \in Requests : Fits(tx[r])

LEMMA Idle ==
  /\ NoTransaction \in Transaction
  /\ NoTransaction.kind = "none" /\ NoTransaction.at = "commit"
  /\ NoTransaction.subscriber = "none" /\ NoTransaction.used = {}
  /\ NoTransaction.todo = {} /\ NoTransaction.closed = {}
BY SMT DEF NoTransaction, Transaction, Kinds, Statements, Statuses

LEMMA IdleFits == Fits(NoTransaction) /\ Fits(NoTransaction)'
BY Idle DEF Fits, AskingFor, Confirming, OptingOut, Publishing, Sees, Purposes

\* What is known of the next value of a request's transaction.
LEMMA NextFits ==
  ASSUME NEW s, NEW x, tx'[s] = x, Fits(x)' PROVE Fits(tx[s])'
BY DEF Fits, AskingFor, Confirming, OptingOut, Publishing, Sees

\* Nothing but the fields of a transaction moves: it has to fit where it
\* moves to, and to lock what nobody has locked.
LEMMA Moving ==
  ASSUME SubscriptionInv, NEW r \in Requests, NEW new \in Transaction, Moves(r, new), Fits(new),
         \A s \in Requests \ {r} : /\ new.used \intersect tx[s].used = {}
                                   /\ "none" \in {new.subscriber, tx[s].subscriber}
  PROVE  SubscriptionInv'
<1>1. TypeOK'
  BY SMT DEF SubscriptionInv, TypeOK, Moves
<1>2. OneLink' /\ OpenMailIsWanted'
  BY SMT DEF SubscriptionInv, OneLink, OneConfirmation, OpenMailIsWanted, Moves
<1>3. \A s \in Requests : Fits(tx[s])'
  <2> SUFFICES ASSUME NEW s \in Requests PROVE Fits(tx[s])'
    OBVIOUS
  <2>1. PICK x \in Transaction : x = tx'[s] /\ Fits(x)
    BY SMT DEF SubscriptionInv, TypeOK, Moves
  <2>2. Fits(x)'
    BY <2>1 DEF Moves, Fits, AskingFor, Confirming, OptingOut, Publishing, Sees
  <2> QED
    BY <2>1, <2>2, NextFits
<1> QED
  BY <1>1, <1>2, <1>3 DEF SubscriptionInv

LEMMA Ending == ASSUME SubscriptionInv, NEW r \in Requests, Ends(r) PROVE SubscriptionInv'
<1>1. Moves(r, NoTransaction)
  BY DEF Ends
<1> QED
  BY <1>1, Idle, IdleFits, Moving
-----------------------------------------------------------------------------
(* Steps that move one transaction. *)

LEMMA ConsumingToken ==
  ASSUME SubscriptionInv, NEW r \in Requests, ConsumeToken(r) PROVE SubscriptionInv'
<1>1. CASE Ends(r)
  BY <1>1, Ending
<1>2. CASE /\ token[tx[r].token] = tx[r].kind
           /\ Moves(r, [tx[r] EXCEPT !.at = "subscriber", !.used = {tx[r].token}])
  <2>1. PICK x \in Transaction :
          /\ x = tx[r] /\ Fits(x) /\ x.at = "token" /\ ~TokenLocked(r, x.token)
          /\ token[x.token] = x.kind
    BY <1>2 DEF SubscriptionInv, TypeOK, ConsumeToken
  <2> DEFINE new == [x EXCEPT !.at = "subscriber", !.used = {x.token}]
  <2>2. x.kind \in Purposes /\ x.token \in Tokens /\ x.subscriber = "none"
        /\ x.todo = {} /\ x.closed = {}
    BY <2>1, Idle DEF Fits, AskingFor, Confirming, OptingOut, Publishing, Transaction, Kinds, Purposes
  <2>3. /\ new \in Transaction /\ new.kind = x.kind /\ new.at = "subscriber"
        /\ new.token = x.token /\ new.post = x.post /\ new.subscriber = x.subscriber
        /\ new.used = {x.token} /\ new.todo = x.todo /\ new.closed = x.closed
    BY <2>2 DEF Transaction, Statements
  <2>4. Moves(r, new)
    BY <1>2, <2>1
  <2> HIDE DEF new
  <2>5. subscriber # "none"
    BY <2>1, <2>2 DEF SubscriptionInv, OneLink, OneConfirmation, Purposes
  <2>6. Fits(new)
    BY <2>1, <2>2, <2>3, <2>5 DEF Fits, AskingFor, Confirming, OptingOut, Publishing, Sees, Purposes
  <2> QED
    BY <2>1, <2>2, <2>3, <2>4, <2>6, Moving DEF TokenLocked
<1> QED
  BY <1>1, <1>2 DEF ConsumeToken

LEMMA Upserting ==
  ASSUME SubscriptionInv, NEW r \in Requests, UpsertSubscriber(r) PROVE SubscriptionInv'
<1>1. CASE Ends(r)
  BY <1>1, Ending
<1>2. CASE /\ subscriber # "confirmed"
           /\ Moves(r, [tx[r] EXCEPT !.subscriber = "pending", !.at = "select"])
  <2>1. PICK x \in Transaction :
          /\ x = tx[r] /\ Fits(x) /\ x.kind = "subscribe" /\ x.at = "subscriber"
          /\ ~SubscriberLocked(r)
    BY <1>2 DEF SubscriptionInv, TypeOK, UpsertSubscriber
  <2> DEFINE new == [x EXCEPT !.subscriber = "pending", !.at = "select"]
  <2>2. x.used = {} /\ x.todo = {} /\ x.closed = {}
    BY <2>1 DEF Fits, AskingFor
  <2>3. /\ new \in Transaction /\ new.kind = x.kind /\ new.at = "select"
        /\ new.token = x.token /\ new.post = x.post /\ new.subscriber = "pending"
        /\ new.used = x.used /\ new.todo = x.todo /\ new.closed = x.closed
    BY <2>2 DEF Transaction, Statements, Statuses
  <2>4. Moves(r, new)
    BY <1>2, <2>1
  <2> HIDE DEF new
  <2>5. Fits(new)
    BY <1>2, <2>1, <2>2, <2>3
       DEF Fits, AskingFor, Confirming, OptingOut, Publishing, Sees, Purposes
  <2> QED
    BY <2>1, <2>2, <2>3, <2>4, <2>5, Moving DEF SubscriberLocked
<1> QED
  BY <1>1, <1>2 DEF UpsertSubscriber

\* Who holds a link that would confirm the address finds it pending.
LEMMA ConfirmingSubscriber ==
  ASSUME SubscriptionInv, NEW r \in Requests, ConfirmSubscriber(r) PROVE SubscriptionInv'
<1>1. PICK x \in Transaction :
        x = tx[r] /\ Fits(x) /\ x.kind = "confirm" /\ x.at = "subscriber"
  BY DEF SubscriptionInv, TypeOK, ConfirmSubscriber
<1>2. /\ x.used = {x.token} /\ x.todo = {} /\ x.closed = {} /\ x.token \in Tokens
      /\ token[x.token] = "confirm"
  BY <1>1 DEF Fits, Confirming, Sees, Purposes
<1>3. subscriber = "pending"
  BY <1>2 DEF SubscriptionInv, OneLink, OneConfirmation
<1> DEFINE new == [x EXCEPT !.subscriber = "confirmed", !.at = "commit"]
<1>4. /\ new \in Transaction /\ new.kind = x.kind /\ new.at = "commit"
      /\ new.token = x.token /\ new.post = x.post /\ new.subscriber = "confirmed"
      /\ new.used = x.used /\ new.todo = x.todo /\ new.closed = x.closed
  BY <1>2 DEF Transaction, Statements, Statuses
<1>5. Moves(r, new) /\ ~SubscriberLocked(r)
  BY <1>1, <1>3 DEF ConfirmSubscriber
<1> HIDE DEF new
<1>6. Fits(new)
  BY <1>1, <1>2, <1>3, <1>4
     DEF Fits, AskingFor, Confirming, OptingOut, Publishing, Sees, Purposes
<1>7. \A s \in Requests \ {r} : new.used \intersect tx[s].used = {}
  BY <1>1, <1>4 DEF SubscriptionInv, TypeOK
<1> QED
  BY <1>4, <1>5, <1>6, <1>7, Moving DEF SubscriberLocked

LEMMA Dropping ==
  ASSUME SubscriptionInv, NEW r \in Requests, DropSubscriber(r) PROVE SubscriptionInv'
<1>1. PICK x \in Transaction :
        /\ x = tx[r] /\ Fits(x) /\ x.kind \in {"unsubscribe", "remove"}
        /\ x.at = "subscriber"
  BY DEF SubscriptionInv, TypeOK, DropSubscriber
<1>2. x.todo = {} /\ x.closed = {}
  BY <1>1 DEF Fits, OptingOut
<1> DEFINE new == [x EXCEPT !.subscriber = "unsubscribed", !.at = "jobs"]
<1>4. /\ new \in Transaction /\ new.kind = x.kind /\ new.at = "jobs"
      /\ new.token = x.token /\ new.post = x.post /\ new.subscriber = "unsubscribed"
      /\ new.used = x.used /\ new.todo = x.todo /\ new.closed = x.closed
  BY <1>2 DEF Transaction, Statements, Statuses
<1>5. Moves(r, new) /\ ~SubscriberLocked(r)
  BY <1>1 DEF DropSubscriber
<1> HIDE DEF new
<1>6. Fits(new)
  BY <1>1, <1>2, <1>4
     DEF Fits, AskingFor, Confirming, OptingOut, Publishing, Sees, Purposes
<1>7. \A s \in Requests \ {r} : new.used \intersect tx[s].used = {}
  BY <1>1, <1>4 DEF SubscriptionInv, TypeOK
<1> QED
  BY <1>4, <1>5, <1>6, <1>7, Moving DEF SubscriberLocked

LEMMA Suppressing ==
  ASSUME SubscriptionInv, NEW r \in Requests, SuppressJobs(r) PROVE SubscriptionInv'
<1> DEFINE open == {p \in Posts : job[p].status = "open"}
<1>1. PICK x \in Transaction : x = tx[r] /\ Fits(x) /\ x.at = "jobs"
  BY DEF SubscriptionInv, TypeOK, SuppressJobs
<1>2. x.kind \in {"unsubscribe", "remove"} /\ x.subscriber = "unsubscribed" /\ x.todo = {}
  BY <1>1, Idle DEF Fits, AskingFor, Confirming, OptingOut, Publishing, Transaction, Kinds
<1> DEFINE new == [x EXCEPT !.at = "select", !.closed = open]
<1>4. /\ new \in Transaction /\ new.kind = x.kind /\ new.at = "select"
      /\ new.token = x.token /\ new.post = x.post /\ new.subscriber = x.subscriber
      /\ new.used = x.used /\ new.todo = x.todo /\ new.closed = open
  BY <1>2 DEF Transaction, Statements
<1>5. Moves(r, new)
  BY <1>1 DEF SuppressJobs
<1> HIDE DEF new
<1>6. Fits(new)
  BY <1>1, <1>2, <1>4
     DEF Fits, AskingFor, Confirming, OptingOut, Publishing, Sees, Purposes
<1>7. \A s \in Requests \ {r} : /\ new.used \intersect tx[s].used = {}
                                /\ "none" \in {new.subscriber, tx[s].subscriber}
  BY <1>1, <1>4 DEF SubscriptionInv, TypeOK
<1> QED
  BY <1>4, <1>5, <1>6, <1>7, Moving

LEMMA Selecting ==
  ASSUME SubscriptionInv, NEW r \in Requests, SelectTokens(r) PROVE SubscriptionInv'
<1>1. PICK x \in Transaction : x = tx[r] /\ Fits(x) /\ x.at = "select"
  BY DEF SubscriptionInv, TypeOK, SelectTokens
<1> DEFINE unused == {t \in Tokens \ x.used : token[t] # "dead"}
<1>2. /\ x.kind \in {"subscribe", "unsubscribe", "remove"}
      /\ x.subscriber = IF x.kind = "subscribe" THEN "pending" ELSE "unsubscribed"
  BY <1>1, Idle DEF Fits, AskingFor, Confirming, OptingOut, Publishing, Transaction, Kinds
<1> DEFINE new == [x EXCEPT !.at = "invalidate", !.todo = unused]
<1>4. /\ new \in Transaction /\ new.kind = x.kind /\ new.at = "invalidate"
      /\ new.token = x.token /\ new.post = x.post /\ new.subscriber = x.subscriber
      /\ new.used = x.used /\ new.todo = unused /\ new.closed = x.closed
  BY <1>2 DEF Transaction, Statements
<1>5. Moves(r, new)
  BY <1>1 DEF SelectTokens
<1>3. \A t \in Tokens : token[t] = "confirm" => t \in x.used \union unused
  OBVIOUS
<1> HIDE DEF new, unused
<1>6. Fits(new)
  BY <1>1, <1>2, <1>3, <1>4
     DEF Fits, AskingFor, Confirming, OptingOut, Publishing, Sees, Purposes
<1>7. \A s \in Requests \ {r} : /\ new.used \intersect tx[s].used = {}
                                /\ "none" \in {new.subscriber, tx[s].subscriber}
  BY <1>1, <1>4 DEF SubscriptionInv, TypeOK
<1> QED
  BY <1>4, <1>5, <1>6, <1>7, Moving

LEMMA Invalidating ==
  ASSUME SubscriptionInv, NEW r \in Requests, NEW t \in Tokens, InvalidateToken(r, t)
  PROVE  SubscriptionInv'
<1>1. PICK x \in Transaction :
        /\ x = tx[r] /\ Fits(x) /\ x.at = "invalidate" /\ t \in x.todo
        /\ ~TokenLocked(r, t)
  BY DEF SubscriptionInv, TypeOK, InvalidateToken
<1>2. /\ x.kind \in {"subscribe", "unsubscribe", "remove"}
      /\ x.subscriber = IF x.kind = "subscribe" THEN "pending" ELSE "unsubscribed"
  BY <1>1, Idle DEF Fits, AskingFor, Confirming, OptingOut, Publishing, Transaction, Kinds
<1> DEFINE used == IF token[t] = "dead" THEN x.used ELSE x.used \union {t}
           new == [x EXCEPT !.todo = @ \ {t}, !.used = used]
<1>4. /\ new \in Transaction /\ new.kind = x.kind /\ new.at = "invalidate"
      /\ new.token = x.token /\ new.post = x.post /\ new.subscriber = x.subscriber
      /\ new.used = used /\ new.todo = x.todo \ {t} /\ new.closed = x.closed
  BY <1>1, <1>2 DEF Transaction, Statements
<1>5. Moves(r, new)
  BY <1>1 DEF InvalidateToken
<1>3. /\ x.used \subseteq used /\ used \subseteq x.used \union {t}
      /\ token[t] = "confirm" => t \in used
  OBVIOUS
<1> HIDE DEF new, used
<1>8. x.token \in used /\ x.kind \in Purposes => token[x.token] = x.kind
  BY <1>1, <1>3 DEF Fits, Sees, OptingOut, Confirming, Purposes
<1>6. Fits(new)
  BY <1>1, <1>2, <1>3, <1>4, <1>8
     DEF Fits, AskingFor, Confirming, OptingOut, Publishing, Sees, Purposes
<1>7. \A s \in Requests \ {r} : /\ new.used \intersect tx[s].used = {}
                                /\ "none" \in {new.subscriber, tx[s].subscriber}
  <2> SUFFICES ASSUME NEW s \in Requests \ {r}
               PROVE  /\ new.used \intersect tx[s].used = {}
                      /\ "none" \in {new.subscriber, tx[s].subscriber}
    OBVIOUS
  <2>1. /\ x.used \intersect tx[s].used = {} /\ t \notin tx[s].used
        /\ "none" \in {x.subscriber, tx[s].subscriber}
    BY <1>1 DEF SubscriptionInv, TypeOK, TokenLocked
  <2> QED
    BY <2>1, <1>3, <1>4
<1> QED
  BY <1>4, <1>5, <1>6, <1>7, Moving

LEMMA Reading ==
  ASSUME SubscriptionInv, NEW r \in Requests, ReadRecipients(r) PROVE SubscriptionInv'
<1>1. CASE Ends(r)
  BY <1>1, Ending
<1>2. CASE subscriber = "confirmed" /\ Moves(r, [tx[r] EXCEPT !.at = "queue"])
  <2>1. PICK x \in Transaction : x = tx[r] /\ Fits(x) /\ x.at = "recipients"
    BY <1>2 DEF SubscriptionInv, TypeOK, ReadRecipients
  <2>2. x.kind = "publish"
    BY <2>1, Idle DEF Fits, AskingFor, Confirming, OptingOut, Publishing, Transaction, Kinds
  <2> DEFINE new == [x EXCEPT !.at = "queue"]
  <2>3. /\ new \in Transaction /\ new.kind = x.kind /\ new.at = "queue"
        /\ new.token = x.token /\ new.post = x.post /\ new.subscriber = x.subscriber
        /\ new.used = x.used /\ new.todo = x.todo /\ new.closed = x.closed
    BY DEF Transaction, Statements
  <2>4. Moves(r, new)
    BY <1>2, <2>1
  <2> HIDE DEF new
  <2>5. Fits(new)
    BY <1>2, <2>1, <2>2, <2>3
       DEF Fits, AskingFor, Confirming, OptingOut, Publishing, Sees, Purposes
  <2>6. \A s \in Requests \ {r} : /\ new.used \intersect tx[s].used = {}
                                  /\ "none" \in {new.subscriber, tx[s].subscriber}
    BY <2>1, <2>3 DEF SubscriptionInv, TypeOK
  <2> QED
    BY <2>3, <2>4, <2>5, <2>6, Moving
<1> QED
  BY <1>1, <1>2 DEF ReadRecipients

\* A request begins.
LEMMA Starting ==
  ASSUME SubscriptionInv, NEW r \in Requests, NEW kind \in Kinds \ {"none"}, NEW at \in Statements,
         NEW t \in Tokens \union {NoToken}, NEW p \in Posts \union {NoPost},
         Begin(r, kind, at, t, p),
         \/ kind = "subscribe" /\ at = "subscriber"
         \/ kind \in Purposes /\ at = "token" /\ t \in Tokens
         \/ kind = "remove" /\ at = "subscriber"
         \/ kind = "publish" /\ at = "recipients" /\ p \in Posts,
         kind \in {"unsubscribe", "remove"} => subscriber # "none"
  PROVE  SubscriptionInv'
<1> DEFINE new == [NoTransaction EXCEPT !.kind = kind, !.at = at, !.token = t, !.post = p]
<1>1. /\ new \in Transaction /\ new.kind = kind /\ new.at = at
      /\ new.token = t /\ new.post = p /\ new.subscriber = "none"
      /\ new.used = {} /\ new.todo = {} /\ new.closed = {}
  BY Idle DEF Transaction
<1>2. Moves(r, new)
  BY DEF Begin, Moves
<1> HIDE DEF new
<1>3. Fits(new)
  BY <1>1 DEF Fits, AskingFor, Confirming, OptingOut, Publishing, Sees, Purposes, Kinds
<1> QED
  BY <1>1, <1>2, <1>3, Moving
-----------------------------------------------------------------------------
(* Commits. *)

\* The other requests' transactions, when r ends with a commit.
LEMMA OthersFit ==
  ASSUME SubscriptionInv, NEW r \in Requests, End(r),
         \A s \in Requests \ {r} :
           \A x \in Transaction : x = tx[s] => Fits(x)'
  PROVE  \A s \in Requests : Fits(tx[s])'
<1> SUFFICES ASSUME NEW s \in Requests PROVE Fits(tx[s])'
  OBVIOUS
<1>1. CASE s = r
  <2>1. tx'[s] = NoTransaction
    BY <1>1 DEF SubscriptionInv, TypeOK, End
  <2> QED
    BY <2>1, IdleFits, NextFits
<1>2. CASE s # r
  <2>1. tx'[s] = tx[s] /\ tx[s] \in Transaction
    BY <1>2 DEF SubscriptionInv, TypeOK, End
  <2>2. PICK x \in Transaction : x = tx[s]
    BY <2>1
  <2>3. Fits(x)'
    BY <1>2, <2>2
  <2> QED
    BY <2>1, <2>2, <2>3, NextFits
<1> QED
  BY <1>1, <1>2

\* What a commit that issues a link, or none, makes of the links and the row.
LEMMA Committing ==
  ASSUME SubscriptionInv, NEW r \in Requests, NEW issued \in Tokens \union {NoToken},
         NEW purpose \in Purposes \union {"dead"}, Committed(r, issued, purpose),
         issued \in Tokens => Fresh(issued),
         job' \in [Posts -> Job], overtaken' \subseteq Posts,
         \A p \in Posts : job'[p].status \in {"open", "failed"} <=> job'[p].link # NoToken
  PROVE  /\ TypeOK'
         /\ \A t \in Tokens : token'[t] = IF t = issued THEN purpose
                                          ELSE IF t \in tx[r].used THEN "dead" ELSE token[t]
         /\ subscriber' = IF tx[r].subscriber = "none" THEN subscriber ELSE tx[r].subscriber
         /\ \A s \in Requests \ {r} : \A t \in tx[s].used : token'[t] = token[t]
<1>1. TypeOK'
  <2>1. /\ subscriber' \in Statuses /\ mailed' \subseteq Tokens
        /\ token' \in [Tokens -> Purposes \union {"dead"}]
    BY DEF SubscriptionInv, TypeOK, Committed, Transaction
  <2>2. /\ tx' \in [Requests -> Transaction]
        /\ \A q, s \in Requests : q # s =>
             /\ tx'[q].used \intersect tx'[s].used = {}
             /\ "none" \in {tx'[q].subscriber, tx'[s].subscriber}
    BY Idle DEF SubscriptionInv, TypeOK, Committed, End
  <2> QED
    BY <2>1, <2>2 DEF TypeOK
<1>2. /\ \A t \in Tokens : token'[t] = IF t = issued THEN purpose
                                       ELSE IF t \in tx[r].used THEN "dead" ELSE token[t]
      /\ subscriber' = IF tx[r].subscriber = "none" THEN subscriber ELSE tx[r].subscriber
  BY DEF Committed
<1>3. \A s \in Requests \ {r} : \A t \in tx[s].used : token'[t] = token[t]
  <2> SUFFICES ASSUME NEW s \in Requests \ {r}, NEW t \in tx[s].used
               PROVE  token'[t] = token[t]
    OBVIOUS
  <2>1. t \in Tokens /\ t \notin tx[r].used
    BY DEF SubscriptionInv, TypeOK, Transaction
  <2>2. t # issued
    BY <2>1, NoTokenAssumption DEF Fresh
  <2> QED
    BY <2>1, <2>2, <1>2
<1> QED
  BY <1>1, <1>2, <1>3

\* While r has written the row of the subscriber nobody else has, and it is
\* only links of other purposes that others issue.
LEMMA OthersSee ==
  ASSUME SubscriptionInv, NEW r \in Requests, NEW s \in Requests \ {r},
         NEW x \in Transaction, x = tx[s],
         \A t \in x.used : token'[t] = token[t],
         \A t \in Tokens : token'[t] = "confirm" => token[t] = "confirm" \/ x.subscriber = "none",
         subscriber' # subscriber => subscriber' # "none" /\ x.subscriber = "none",
         overtaken \subseteq overtaken',
         \A p \in Posts : job'[p].status = "open" =>
           job[p].status = "open" \/ p \in overtaken' \/ x.subscriber # "unsubscribed"
  PROVE  Fits(x)'
<1>1. Fits(x)
  BY DEF SubscriptionInv
<1>2. AskingFor(x)' /\ Confirming(x)' /\ OptingOut(x)' /\ Publishing(x)'
  BY <1>1 DEF Fits, AskingFor, Confirming, OptingOut, Publishing
<1>3. Sees(x)'
  <2>1. x.kind \in Purposes /\ x.token \in x.used => token'[x.token] = x.kind
    BY <1>1 DEF Fits, Sees
  <2>2. /\ x.kind \in {"unsubscribe", "remove"} => subscriber' # "none"
        /\ x.at = "queue" => subscriber' # "none"
        /\ x.subscriber = "pending" => subscriber' # "confirmed"
    BY <1>1 DEF Fits, Sees
  <2>3. x.at = "invalidate" =>
          \A t \in Tokens : token'[t] = "confirm" => t \in x.used \union x.todo
    <3>1. x.at = "invalidate" => x.subscriber # "none"
      BY <1>1, Idle DEF Fits, AskingFor, Confirming, OptingOut, Publishing, Transaction, Kinds
    <3> QED
      BY <1>1, <3>1 DEF Fits, Sees
  <2>4. x.subscriber = "unsubscribed" /\ x.at \in {"select", "invalidate"} =>
          \A p \in Posts : job'[p].status = "open" => p \in x.closed \union overtaken'
    BY <1>1 DEF Fits, Sees
  <2> QED
    BY <2>1, <2>2, <2>3, <2>4 DEF Sees
<1> QED
  BY <1>1, <1>2, <1>3 DEF Fits

LEMMA SubscriptionCommits ==
  ASSUME SubscriptionInv, NEW r \in Requests, SubscribeCommits(r)
  PROVE  /\ SubscriptionInv'
         /\ subscriber # "confirmed" /\ subscriber' = "pending"
         /\ \E t \in Tokens : /\ token[t] # "confirm"
                              /\ \A u \in Tokens : token'[u] = "confirm" <=> u = t
<1>1. PICK x \in Transaction :
        /\ x = tx[r] /\ Fits(x) /\ x.kind = "subscribe" /\ x.at = "invalidate" /\ x.todo = {}
  BY DEF SubscriptionInv, TypeOK, SubscribeCommits
<1>2. /\ x.subscriber = "pending" /\ subscriber # "confirmed"
      /\ \A t \in Tokens : token[t] = "confirm" => t \in x.used
  BY <1>1 DEF Fits, AskingFor, Sees
<1>3. PICK t \in Tokens : Fresh(t) /\ Committed(r, t, "confirm") /\ UNCHANGED <<job, overtaken>>
  BY DEF SubscribeCommits
<1>4. "confirm" \in Purposes \union {"dead"}
  BY DEF Purposes
<1>5. /\ job' \in [Posts -> Job] /\ overtaken' \subseteq Posts
      /\ \A p \in Posts : job'[p].status \in {"open", "failed"} <=> job'[p].link # NoToken
  BY <1>3 DEF SubscriptionInv, TypeOK
<1>6. /\ TypeOK'
      /\ \A u \in Tokens : token'[u] = IF u = t THEN "confirm"
                                       ELSE IF u \in x.used THEN "dead" ELSE token[u]
      /\ subscriber' = "pending"
      /\ \A s \in Requests \ {r} : \A u \in tx[s].used : token'[u] = token[u]
  BY <1>1, <1>2, <1>3, <1>4, <1>5, Committing
<1>7. OneLink'
  BY <1>2, <1>6 DEF OneLink, OneConfirmation
<1>8. OpenMailIsWanted'
  BY <1>2, <1>3, <1>6 DEF SubscriptionInv, OpenMailIsWanted
<1>9. \A s \in Requests : Fits(tx[s])'
  <2>1. ASSUME NEW s \in Requests \ {r}, NEW y \in Transaction, y = tx[s] PROVE Fits(y)'
    <3>1. y.subscriber = "none" /\ \A u \in y.used : token'[u] = token[u]
      BY <1>1, <1>2, <1>6, <2>1 DEF SubscriptionInv, TypeOK
    <3> QED
      BY <1>3, <1>6, <2>1, <3>1, OthersSee
  <2> QED
    BY <1>3, <2>1, OthersFit DEF Committed
<1> QED
  BY <1>2, <1>3, <1>6, <1>7, <1>8, <1>9 DEF SubscriptionInv, Fresh

LEMMA ConfirmationCommits ==
  ASSUME SubscriptionInv, NEW r \in Requests, ConfirmCommits(r)
  PROVE  /\ SubscriptionInv'
         /\ tx[r].kind = "confirm" /\ tx[r].token \in Tokens /\ token[tx[r].token] = "confirm"
         /\ subscriber = "pending" /\ subscriber' = "confirmed"
         /\ \A u \in Tokens : token'[u] # "confirm"
<1>1. PICK x \in Transaction :
        x = tx[r] /\ Fits(x) /\ x.kind = "confirm" /\ x.at = "commit"
  BY DEF SubscriptionInv, TypeOK, ConfirmCommits
<1>2. /\ x.token \in Tokens /\ x.used = {x.token} /\ x.subscriber = "confirmed"
      /\ token[x.token] = "confirm"
  BY <1>1 DEF Fits, Confirming, Sees, Purposes
<1>3. Committed(r, NoToken, "dead") /\ UNCHANGED <<job, overtaken>>
  BY DEF ConfirmCommits
<1>5. /\ job' \in [Posts -> Job] /\ overtaken' \subseteq Posts
      /\ \A p \in Posts : job'[p].status \in {"open", "failed"} <=> job'[p].link # NoToken
  BY <1>3 DEF SubscriptionInv, TypeOK
<1>6. /\ TypeOK'
      /\ \A u \in Tokens : token'[u] = IF u = NoToken THEN "dead"
                                       ELSE IF u \in x.used THEN "dead" ELSE token[u]
      /\ subscriber' = "confirmed"
      /\ \A s \in Requests \ {r} : \A u \in tx[s].used : token'[u] = token[u]
  BY <1>1, <1>2, <1>3, <1>5, Committing, NoTokenAssumption
<1>4. subscriber = "pending" /\ \A u \in Tokens : token'[u] # "confirm"
  BY <1>2, <1>6 DEF SubscriptionInv, OneLink, OneConfirmation
<1>7. OneLink'
  BY <1>4, <1>6 DEF OneLink, OneConfirmation
<1>8. OpenMailIsWanted'
  BY <1>6 DEF OpenMailIsWanted
<1>9. \A s \in Requests : Fits(tx[s])'
  <2>1. ASSUME NEW s \in Requests \ {r}, NEW y \in Transaction, y = tx[s] PROVE Fits(y)'
    <3>1. y.subscriber = "none" /\ \A u \in y.used : token'[u] = token[u]
      BY <1>1, <1>2, <1>6, <2>1 DEF SubscriptionInv, TypeOK
    <3> QED
      BY <1>3, <1>4, <1>6, <2>1, <3>1, OthersSee
  <2> QED
    BY <1>3, <2>1, OthersFit DEF Committed
<1> QED
  BY <1>1, <1>2, <1>4, <1>6, <1>7, <1>8, <1>9 DEF SubscriptionInv

LEMMA OptingOutCommits ==
  ASSUME SubscriptionInv, NEW r \in Requests, OptOutCommits(r)
  PROVE  /\ SubscriptionInv'
         /\ tx[r].kind = "unsubscribe" => token[tx[r].token] = "unsubscribe"
         /\ tx[r].kind \in {"unsubscribe", "remove"}
         /\ subscriber # "none" /\ subscriber' = "unsubscribed"
         /\ \A u \in Tokens : token'[u] # "confirm"
<1>1. PICK x \in Transaction :
        /\ x = tx[r] /\ Fits(x) /\ x.kind \in {"unsubscribe", "remove"}
        /\ x.at = "invalidate" /\ x.todo = {}
  BY DEF SubscriptionInv, TypeOK, OptOutCommits
<1>2. /\ x.subscriber = "unsubscribed" /\ subscriber # "none"
      /\ \A t \in Tokens : token[t] = "confirm" => t \in x.used
      /\ \A p \in Posts : job[p].status = "open" => p \in x.closed \union overtaken
      /\ x.kind = "unsubscribe" => token[x.token] = "unsubscribe"
  BY <1>1 DEF Fits, OptingOut, Sees, Purposes
<1>3. /\ Committed(r, NoToken, "dead") /\ UNCHANGED overtaken
      /\ job' = [p \in Posts |-> IF p \in x.closed
                                 THEN [status |-> "closed", link |-> NoToken] ELSE job[p]]
  BY <1>1 DEF OptOutCommits
<1>5. /\ job' \in [Posts -> Job] /\ overtaken' \subseteq Posts
      /\ \A p \in Posts : job'[p].status \in {"open", "failed"} <=> job'[p].link # NoToken
  BY <1>3 DEF SubscriptionInv, TypeOK, Job
<1>6. /\ TypeOK'
      /\ \A u \in Tokens : token'[u] = IF u = NoToken THEN "dead"
                                       ELSE IF u \in x.used THEN "dead" ELSE token[u]
      /\ subscriber' = "unsubscribed"
      /\ \A s \in Requests \ {r} : \A u \in tx[s].used : token'[u] = token[u]
  BY <1>1, <1>2, <1>3, <1>5, Committing, NoTokenAssumption
<1>4. \A u \in Tokens : token'[u] # "confirm"
  BY <1>2, <1>6
<1>7. OneLink'
  BY <1>4, <1>6 DEF OneLink, OneConfirmation
<1>10. \A p \in Posts : job'[p].status = "open" => job[p].status = "open" /\ p \in overtaken
  BY <1>2, <1>3
<1>8. OpenMailIsWanted'
  BY <1>3, <1>10 DEF OpenMailIsWanted
<1>9. \A s \in Requests : Fits(tx[s])'
  <2>1. ASSUME NEW s \in Requests \ {r}, NEW y \in Transaction, y = tx[s] PROVE Fits(y)'
    <3>1. y.subscriber = "none" /\ \A u \in y.used : token'[u] = token[u]
      BY <1>1, <1>2, <1>6, <2>1 DEF SubscriptionInv, TypeOK
    <3> QED
      BY <1>3, <1>4, <1>6, <1>10, <2>1, <3>1, OthersSee
  <2> QED
    BY <1>3, <2>1, OthersFit DEF Committed
<1> QED
  BY <1>1, <1>2, <1>4, <1>6, <1>7, <1>8, <1>9 DEF SubscriptionInv

LEMMA PublicationCommits ==
  ASSUME SubscriptionInv, NEW r \in Requests, PublishCommits(r)
  PROVE  /\ SubscriptionInv' /\ subscriber' = subscriber
         /\ tx[r].kind = "publish" \/ token' = token
         /\ \A u \in Tokens : token'[u] = "confirm" <=> token[u] = "confirm"
<1>1. PICK x \in Transaction : x = tx[r] /\ Fits(x) /\ x.at = "queue"
  BY DEF SubscriptionInv, TypeOK, PublishCommits
<1>2. /\ x.kind = "publish" /\ x.post \in Posts /\ subscriber # "none"
      /\ x.subscriber = "none" /\ x.used = {}
  BY <1>1, Idle DEF Fits, AskingFor, Confirming, OptingOut, Publishing, Sees, Transaction, Kinds
<1>3. CASE job[x.post].status # "none"
  <2>1. Ends(r)
    BY <1>1, <1>3 DEF PublishCommits
  <2> QED
    BY <1>1, <1>2, <2>1, Ending DEF Ends, Moves
<1>4. CASE job[x.post].status = "none"
  <2> DEFINE p == x.post
  <2>1. PICK t \in Tokens :
          /\ Fresh(t) /\ Committed(r, t, "unsubscribe")
          /\ job' = [job EXCEPT ![p] = [status |-> "open", link |-> t]]
          /\ overtaken' = overtaken \union (IF OptedOut THEN {p} ELSE {})
    BY <1>1, <1>4 DEF PublishCommits
  <2>2. "unsubscribe" \in Purposes \union {"dead"} /\ t # NoToken
    BY NoTokenAssumption DEF Purposes
  <2>5. /\ job' \in [Posts -> Job] /\ overtaken' \subseteq Posts
        /\ \A q \in Posts : job'[q].status \in {"open", "failed"} <=> job'[q].link # NoToken
    BY <1>2, <2>1, <2>2 DEF SubscriptionInv, TypeOK, Job
  <2>6. /\ TypeOK'
        /\ \A u \in Tokens : token'[u] = IF u = t THEN "unsubscribe" ELSE token[u]
        /\ subscriber' = subscriber
        /\ \A s \in Requests \ {r} : \A u \in tx[s].used : token'[u] = token[u]
    <3>1. /\ TypeOK'
          /\ \A u \in Tokens : token'[u] = IF u = t THEN "unsubscribe"
                                           ELSE IF u \in x.used THEN "dead" ELSE token[u]
          /\ subscriber' = IF x.subscriber = "none" THEN subscriber ELSE x.subscriber
          /\ \A s \in Requests \ {r} : \A u \in tx[s].used : token'[u] = token[u]
      BY <1>1, <2>1, <2>2, <2>5, Committing
    <3> QED
      BY <1>2, <3>1
  <2>3. \A u \in Tokens : token'[u] = "confirm" <=> token[u] = "confirm"
    BY <2>1, <2>6 DEF Fresh
  <2>7. OneLink'
    BY <1>2, <2>1, <2>3, <2>6 DEF SubscriptionInv, OneLink, OneConfirmation, Fresh
  <2>4. /\ \A q \in Posts : job'[q].status = "open" => q = p \/ job[q].status = "open"
        /\ OptedOut => p \in overtaken'
        /\ overtaken \subseteq overtaken'
    BY <2>1 DEF SubscriptionInv, TypeOK
  <2>8. OpenMailIsWanted'
    BY <2>4, <2>6 DEF SubscriptionInv, OpenMailIsWanted, OptedOut
  <2>9. \A s \in Requests : Fits(tx[s])'
    <3>1. ASSUME NEW s \in Requests \ {r}, NEW y \in Transaction, y = tx[s] PROVE Fits(y)'
      <4>1. \A u \in y.used : token'[u] = token[u]
        BY <2>6, <3>1
      <4>2. y.subscriber = "unsubscribed" => OptedOut
        BY <3>1 DEF OptedOut
      <4> QED
        BY <2>3, <2>4, <2>6, <3>1, <4>1, <4>2, OthersSee
    <3> QED
      BY <2>1, <3>1, OthersFit DEF Committed
  <2> QED
    BY <1>1, <1>2, <2>3, <2>6, <2>7, <2>8, <2>9 DEF SubscriptionInv
<1> QED
  BY <1>3, <1>4
-----------------------------------------------------------------------------
(* The outbox, and the administrator who retries a failed job. *)

\* A job moves, the rows and the transactions stay.
LEMMA JobMoves ==
  ASSUME SubscriptionInv, NEW p \in Posts, NEW new \in Job, job' = [job EXCEPT ![p] = new],
         new.status \in {"open", "failed"} <=> new.link # NoToken,
         UNCHANGED <<subscriber, token, tx>>,
         mailed' \subseteq Tokens, overtaken \subseteq overtaken', overtaken' \subseteq Posts,
         new.status = "open" => (OptedOut => p \in overtaken')
  PROVE  SubscriptionInv'
<1>1. TypeOK'
  BY DEF SubscriptionInv, TypeOK
<1>2. OneLink'
  BY DEF SubscriptionInv, OneLink, OneConfirmation
<1>3. \A q \in Posts : job'[q].status = "open" =>
        job[q].status = "open" \/ (q = p /\ (OptedOut => p \in overtaken'))
  <2>1. \A q \in Posts : job'[q] = IF q = p THEN new ELSE job[q]
    BY DEF SubscriptionInv, TypeOK
  <2>2. job'[p].status = "open" => (OptedOut => p \in overtaken')
    BY <2>1, Zenon
  <2>3. \A q \in Posts \ {p} : job'[q].status = "open" => job[q].status = "open"
    BY <2>1
  <2> SUFFICES ASSUME NEW q \in Posts, job'[q].status = "open"
               PROVE  job[q].status = "open" \/ (q = p /\ (OptedOut => p \in overtaken'))
    OBVIOUS
  <2>4. CASE q = p
    BY <2>2, <2>4, Zenon
  <2>5. CASE q # p
    <3>1. job[q].status = "open"
      BY <2>3, <2>5
    <3> QED
      BY <3>1
  <2> QED
    BY <2>4, <2>5
<1>4. OpenMailIsWanted'
  BY <1>3 DEF SubscriptionInv, OpenMailIsWanted, OptedOut
<1>5. \A s \in Requests : Fits(tx[s])'
  <2> SUFFICES ASSUME NEW s \in Requests PROVE Fits(tx[s])'
    OBVIOUS
  <2>1. PICK x \in Transaction : x = tx[s] /\ Fits(x)
    BY DEF SubscriptionInv, TypeOK
  <2>2. x.subscriber = "unsubscribed" => OptedOut
    BY <2>1 DEF OptedOut
  <2>3. Sees(x)'
    BY <1>3, <2>1, <2>2 DEF Fits, Sees
  <2>4. Fits(x)'
    BY <2>1, <2>3 DEF Fits, AskingFor, Confirming, OptingOut, Publishing
  <2> QED
    BY <2>1, <2>4, NextFits
<1> QED
  BY <1>1, <1>2, <1>4, <1>5 DEF SubscriptionInv

LEMMA OutboxMoves ==
  ASSUME SubscriptionInv, NEW p \in Posts,
         Deliver(p) \/ SuppressOne(p) \/ GiveUp(p) \/ RetryMailJob(p)
  PROVE  SubscriptionInv' /\ UNCHANGED <<subscriber, token, tx>>
<1>0. /\ job[p] \in Job
      /\ job[p].status \in {"open", "failed"} <=> job[p].link # NoToken
      /\ mailed \subseteq Tokens /\ overtaken \subseteq Posts
  BY DEF SubscriptionInv, TypeOK
<1> DEFINE closed == [status |-> "closed", link |-> NoToken]
<1>1. closed \in Job /\ closed.status = "closed" /\ closed.link = NoToken
  BY DEF Job
<1> HIDE DEF closed
<1>2. CASE Deliver(p)
  <2>1. /\ job' = [job EXCEPT ![p] = closed] /\ UNCHANGED <<subscriber, token, tx, overtaken>>
        /\ mailed' = mailed \union {job[p].link} /\ job[p].status = "open"
    BY <1>2 DEF Deliver, Outbox, closed
  <2>2. mailed' \subseteq Tokens
    BY <1>0, <2>1 DEF Job
  <2> QED
    BY <1>0, <1>1, <2>1, <2>2, JobMoves
<1>3. CASE SuppressOne(p)
  <2>1. /\ job' = [job EXCEPT ![p] = closed]
        /\ UNCHANGED <<subscriber, token, tx, mailed, overtaken>>
    BY <1>3 DEF SuppressOne, Outbox, closed
  <2> QED
    BY <1>0, <1>1, <2>1, JobMoves
<1>4. CASE GiveUp(p)
  <2> DEFINE new == [job[p] EXCEPT !.status = "failed"]
  <2>1. /\ job' = [job EXCEPT ![p] = new] /\ job[p].status = "open"
        /\ UNCHANGED <<subscriber, token, tx, mailed, overtaken>>
    BY <1>0, <1>4 DEF GiveUp, Outbox, SubscriptionInv, TypeOK
  <2>2. new \in Job /\ new.status = "failed" /\ new.link = job[p].link
    BY <1>0 DEF Job
  <2> HIDE DEF new
  <2> QED
    BY <1>0, <2>1, <2>2, JobMoves
<1>5. CASE RetryMailJob(p)
  <2> DEFINE new == [job[p] EXCEPT !.status = "open"]
  <2>1. /\ job' = [job EXCEPT ![p] = new] /\ job[p].status = "failed"
        /\ overtaken' = overtaken \union (IF OptedOut THEN {p} ELSE {})
        /\ UNCHANGED <<subscriber, token, tx, mailed>>
    BY <1>0, <1>5 DEF RetryMailJob, Outbox, SubscriptionInv, TypeOK
  <2>2. new \in Job /\ new.status = "open" /\ new.link = job[p].link
    BY <1>0 DEF Job
  <2>3. overtaken \subseteq overtaken' /\ overtaken' \subseteq Posts
        /\ (OptedOut => p \in overtaken')
    BY <1>0, <2>1
  <2> HIDE DEF new
  <2> QED
    BY <1>0, <2>1, <2>2, <2>3, JobMoves
<1> QED
  BY <1>2, <1>3, <1>4, <1>5
-----------------------------------------------------------------------------
(* The theorems' steps. *)

LEMMA SubscriptionsBegin == Init => SubscriptionInv
<1> SUFFICES ASSUME Init PROVE SubscriptionInv
  OBVIOUS
<1>1. NoJob \in Job /\ NoJob.status = "none" /\ NoJob.link = NoToken
  BY DEF NoJob, Job
<1>2. TypeOK /\ OneLink /\ OpenMailIsWanted
  BY <1>1, Idle DEF Init, TypeOK, OneLink, OneConfirmation, OpenMailIsWanted, Statuses
<1> QED
  BY <1>2, IdleFits DEF SubscriptionInv, Init

LEMMA Beginnings ==
  ASSUME SubscriptionInv, NEW r \in Requests,
         \/ Subscribe(r) \/ RemoveSubscriber(r)
         \/ \E t \in Tokens : ConfirmSubscription(r, t) \/ Unsubscribe(r, t)
         \/ \E p \in Posts : Publish(r, p)
  PROVE  SubscriptionInv' /\ UNCHANGED <<subscriber, token>>
<1>1. /\ {"subscribe", "confirm", "unsubscribe", "remove", "publish"} = Kinds \ {"none"}
      /\ {"subscriber", "token", "recipients"} \subseteq Statements
      /\ Purposes = {"confirm", "unsubscribe"}
  BY DEF Kinds, Statements, Purposes
<1>2. CASE Subscribe(r)
  <2>1. Begin(r, "subscribe", "subscriber", NoToken, NoPost)
    BY <1>2 DEF Subscribe
  <2>2. SubscriptionInv'
    BY <1>1, <2>1, Starting
  <2> QED
    BY <2>1, <2>2 DEF Begin
<1>3. CASE RemoveSubscriber(r)
  BY <1>1, <1>3, Starting DEF RemoveSubscriber, Begin
<1>4. ASSUME NEW t \in Tokens, ConfirmSubscription(r, t)
      PROVE  SubscriptionInv' /\ UNCHANGED <<subscriber, token>>
  BY <1>1, <1>4, Starting DEF ConfirmSubscription, Begin
<1>5. ASSUME NEW t \in Tokens, Unsubscribe(r, t)
      PROVE  SubscriptionInv' /\ UNCHANGED <<subscriber, token>>
  <2>1. subscriber # "none"
    BY <1>5 DEF Unsubscribe, SubscriptionInv, OneLink, OneConfirmation
  <2> QED
    BY <1>1, <1>5, <2>1, Starting DEF Unsubscribe, Begin
<1>6. ASSUME NEW p \in Posts, Publish(r, p)
      PROVE  SubscriptionInv' /\ UNCHANGED <<subscriber, token>>
  BY <1>1, <1>6, Starting DEF Publish, Begin
<1> QED
  BY <1>2, <1>3, <1>4, <1>5, <1>6

\* The steps that are neither a commit nor of the outbox.
Statement(r) ==
  \/ ConsumeToken(r) \/ UpsertSubscriber(r) \/ ConfirmSubscriber(r)
  \/ DropSubscriber(r) \/ SuppressJobs(r) \/ SelectTokens(r)
  \/ \E t \in Tokens : InvalidateToken(r, t)
  \/ ReadRecipients(r) \/ Abort(r)

LEMMA StatementsMove ==
  ASSUME SubscriptionInv, NEW r \in Requests, Statement(r)
  PROVE  SubscriptionInv' /\ UNCHANGED <<subscriber, token>>
<1>1. SubscriptionInv'
  BY ConsumingToken, Upserting, ConfirmingSubscriber, Dropping, Suppressing, Selecting,
     Invalidating, Reading, Ending DEF Statement, Abort
<1>2. UNCHANGED <<subscriber, token>>
  BY DEF Statement, ConsumeToken, UpsertSubscriber, ConfirmSubscriber, DropSubscriber,
     SuppressJobs, SelectTokens, InvalidateToken, ReadRecipients, Abort, Ends, Moves
<1> QED
  BY <1>1, <1>2

\* What a step can be: a case for each kind of commit, and one for the rest.
LEMMA StepIsOneOf ==
  ASSUME Next
  PROVE  \/ \E r \in Requests :
              \/ Subscribe(r) \/ RemoveSubscriber(r)
              \/ \E t \in Tokens : ConfirmSubscription(r, t) \/ Unsubscribe(r, t)
              \/ \E p \in Posts : Publish(r, p)
         \/ \E r \in Requests :
              \/ Statement(r) \/ SubscribeCommits(r) \/ ConfirmCommits(r)
              \/ OptOutCommits(r) \/ PublishCommits(r)
         \/ \E p \in Posts : Deliver(p) \/ SuppressOne(p) \/ GiveUp(p) \/ RetryMailJob(p)
BY DEF Next, Progress, Statement

LEMMA SubscriptionsStep == SubscriptionInv /\ [Next]_vars => SubscriptionInv'
<1> SUFFICES ASSUME SubscriptionInv, [Next]_vars PROVE SubscriptionInv'
  OBVIOUS
<1>1. CASE Next
  BY <1>1, StepIsOneOf, Beginnings, StatementsMove, SubscriptionCommits, ConfirmationCommits,
     OptingOutCommits, PublicationCommits, OutboxMoves
<1>2. CASE UNCHANGED vars
  BY <1>2 DEF vars, SubscriptionInv, TypeOK, OneLink, OneConfirmation, OpenMailIsWanted, Fits, AskingFor,
     Confirming, OptingOut, Publishing, Sees
<1> QED
  BY <1>1, <1>2
-----------------------------------------------------------------------------
(* Double opt-in, and the use of a link. *)

LEMMA OptInBegins == Init => OptIn!OptInInit
BY DEF Init, OptIn!OptInInit, Purposes

\* What the abstract specification sees of a step: nothing, or one commit.
LEMMA OptInStep ==
  ASSUME SubscriptionInv, [Next]_vars
  PROVE  [OptIn!OptInNext]_(OptIn!optInVars)
<1> DEFINE valid == {t \in Tokens : token[t] = "confirm"}
<1>1. ASSUME UNCHANGED <<subscriber, token>> PROVE UNCHANGED OptIn!optInVars
  BY <1>1 DEF OptIn!optInVars
<1>2. ASSUME NEW r \in Requests, SubscribeCommits(r) PROVE OptIn!OptInNext
  <2>1. PICK t \in Tokens : /\ token[t] # "confirm"
                            /\ \A u \in Tokens : token'[u] = "confirm" <=> u = t
    BY <1>2, SubscriptionCommits
  <2>2. subscriber # "confirmed" /\ subscriber' = "pending"
    BY <1>2, SubscriptionCommits
  <2>3. valid' = {t}
    BY <2>1
  <2>4. OptIn!Request(t)
    BY <2>1, <2>2, <2>3 DEF OptIn!Request
  <2> QED
    BY <2>4 DEF OptIn!OptInNext
<1>3. ASSUME NEW r \in Requests, ConfirmCommits(r) PROVE OptIn!OptInNext
  <2>1. PICK t \in Tokens : t = tx[r].token /\ token[t] = "confirm"
    BY <1>3, ConfirmationCommits
  <2>2. /\ subscriber = "pending" /\ subscriber' = "confirmed"
        /\ \A u \in Tokens : token'[u] # "confirm"
    BY <1>3, ConfirmationCommits
  <2>3. valid' = {}
    BY <2>2
  <2>4. OptIn!Confirm(t)
    BY <2>1, <2>2, <2>3 DEF OptIn!Confirm
  <2> QED
    BY <2>4 DEF OptIn!OptInNext
<1>4. ASSUME NEW r \in Requests, OptOutCommits(r) PROVE OptIn!OptInNext
  <2>1. /\ subscriber # "none" /\ subscriber' = "unsubscribed"
        /\ \A u \in Tokens : token'[u] # "confirm"
    BY <1>4, OptingOutCommits
  <2>2. valid' = {}
    BY <2>1
  <2>3. OptIn!OptOut
    BY <2>1, <2>2 DEF OptIn!OptOut
  <2> QED
    BY <2>3 DEF OptIn!OptInNext
<1>5. ASSUME NEW r \in Requests, PublishCommits(r) PROVE UNCHANGED OptIn!optInVars
  <2>1. /\ subscriber' = subscriber
        /\ \A u \in Tokens : token'[u] = "confirm" <=> token[u] = "confirm"
    BY <1>5, PublicationCommits
  <2>2. valid' = valid
    BY <2>1
  <2> QED
    BY <2>1, <2>2 DEF OptIn!optInVars
<1>6. CASE Next
  <2>1. CASE \E r \in Requests :
               \/ Subscribe(r) \/ RemoveSubscriber(r)
               \/ \E t \in Tokens : ConfirmSubscription(r, t) \/ Unsubscribe(r, t)
               \/ \E p \in Posts : Publish(r, p)
    BY <1>1, <2>1, Beginnings
  <2>2. CASE \E r \in Requests : Statement(r)
    BY <1>1, <2>2, StatementsMove
  <2>3. CASE \E p \in Posts : Deliver(p) \/ SuppressOne(p) \/ GiveUp(p) \/ RetryMailJob(p)
    BY <1>1, <2>3, OutboxMoves
  <2> QED
    BY <1>2, <1>3, <1>4, <1>5, <1>6, <2>1, <2>2, <2>3, StepIsOneOf
<1>7. CASE UNCHANGED vars
  BY <1>1, <1>7 DEF vars
<1> QED
  BY <1>6, <1>7

\* A commit uses the link of its own request, which was unused.
LEMMA LinkIsUsedOnce ==
  ASSUME SubscriptionInv, [Next]_vars, token' # token,
         NEW s \in Requests, tx[s].kind \in Purposes, tx'[s].kind = "none"
  PROVE  token[tx[s].token] = tx[s].kind
<1>1. ASSUME NEW r \in Requests, End(r) PROVE r = s
  BY <1>1 DEF SubscriptionInv, TypeOK, End, Purposes
<1>2. ASSUME NEW r \in Requests,
             SubscribeCommits(r) \/ ConfirmCommits(r) \/ OptOutCommits(r)
      PROVE  token[tx[s].token] = tx[s].kind
  <2>1. r = s
    BY <1>1, <1>2 DEF SubscribeCommits, ConfirmCommits, OptOutCommits, Committed
  <2>2. ~SubscribeCommits(s)
    BY DEF SubscribeCommits, Purposes
  <2> QED
    BY <1>2, <2>1, <2>2, ConfirmationCommits, OptingOutCommits DEF Purposes
<1>3. ASSUME NEW r \in Requests, PublishCommits(r) PROVE FALSE
  <2>1. tx[r].kind = "publish"
    BY <1>3, PublicationCommits
  <2>2. r = s
    BY <1>1, <1>3 DEF PublishCommits, Committed, Ends, Moves
  <2> QED
    BY <2>1, <2>2 DEF Purposes
<1>4. CASE Next
  BY <1>2, <1>3, <1>4, StepIsOneOf, Beginnings, StatementsMove, OutboxMoves
<1> QED
  BY <1>4 DEF vars
=============================================================================
