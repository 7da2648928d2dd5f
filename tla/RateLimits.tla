----------------------------- MODULE RateLimits ------------------------------
(***************************************************************************)
(* The public rate limits (src/lib/community/rate-limit.ts): a table of    *)
(* counters, one row for each bucket and window, which the transaction of  *)
(* a public request increments one after the other.  An increment locks    *)
(* its row to the end of the transaction; a bucket at its limit throws,    *)
(* and PostgreSQL undoes what the transaction had counted.                 *)
(***************************************************************************)
EXTENDS Naturals, Sequences, FiniteSets, SequencesExt
CONSTANTS Requests,      \* requests the server works on at a time
          Emails, Ips,   \* addresses; None in Ips: no trusted address
          None,
          Limits,        \* Limits[action][kind]: requests in a window
          Windows,       \* Windows[action][kind]: length of a window
          MaxTime        \* bound: the clock

Actions == DOMAIN Limits

VARIABLES
  now,       \* the clock
  counts,    \* the table: committed counts, of the rows that exist
  request,   \* each request: its action, its counters, how far it is
  accepted   \* history: the counters of every request that was let through

vars == <<now, counts, request, accepted>>

\* A row's key: the scope (action and kind), the bucket and the window.
Row(action, kind, value) ==
  [action |-> action, kind |-> kind, bucket |-> value,
   window |-> now \div Windows[action][kind]]

LimitOf(row) == Limits[row.action][row.kind]

\* publicLimits: the counters in the order in which they are taken.
PublicLimits(action, email, ip) ==
  LET of(kind, value) == IF value = None \/ kind \notin DOMAIN Limits[action]
                         THEN <<>> ELSE <<Row(action, kind, value)>>
  IN of("global", "global") \o of("email", email) \o of("ip", ip)

Idle == [rows |-> <<>>, taken |-> 0, at |-> "idle"]

Init ==
  /\ now = 0 /\ counts = <<>> /\ accepted = <<>>
  /\ request = [r \in Requests |-> Idle]

Taken(r) == {request[r].rows[i] : i \in 1 .. request[r].taken}
Locked(row) == \E r \in Requests : row \in Taken(r)
Count(row) == IF row \in DOMAIN counts THEN counts[row] ELSE 0

Begin(r) ==
  /\ request[r].at = "idle"
  /\ \E action \in Actions, email \in Emails, ip \in Ips :
       request' = [request EXCEPT ![r] =
         [rows |-> PublicLimits(action, email, ip), taken |-> 0, at |-> "open"]]
  /\ UNCHANGED <<now, counts, accepted>>

\* The next counter of r's transaction.
Next1(r) == request[r].rows[request[r].taken + 1]
Counting(r) == request[r].at = "open" /\ request[r].taken < Len(request[r].rows)

\* increment: waits for the row; counts only below the limit.
Take(r, row) ==
  /\ ~Locked(row)
  /\ request' = [request EXCEPT
       ![r] = IF Count(row) < LimitOf(row)
                THEN [@ EXCEPT !.taken = request[r].taken + 1]
                ELSE [@ EXCEPT !.at = "limited"]]

Increment(r) ==
  /\ Counting(r)
  /\ Take(r, Next1(r))
  /\ UNCHANGED <<now, counts, accepted>>

\* Adds one to every one of a set of counters.
Plus(table, rows) ==
  [k \in DOMAIN table \union rows |->
     (IF k \in DOMAIN table THEN table[k] ELSE 0) + (IF k \in rows THEN 1 ELSE 0)]

\* The request goes on to its own statements, and commits with them.
Commit(r) ==
  /\ request[r].at = "open" /\ ~Counting(r)
  /\ counts' = Plus(counts, Taken(r))
  /\ accepted' = Plus(accepted, ToSet(request[r].rows))
  /\ request' = [request EXCEPT ![r] = Idle]
  /\ UNCHANGED now

\* Fault variant: what was counted stays counted.
KeptCounts(r) == Plus(counts, Taken(r))

\* What an ended transaction leaves in the table: nothing, it is rolled back.
Undone(r) == counts

\* A counter at its limit, or any other failure of the transaction.
Rollback(r) ==
  /\ request[r].at \in {"open", "limited"}
  /\ counts' = Undone(r)
  /\ request' = [request EXCEPT ![r] = Idle]
  /\ UNCHANGED <<now, accepted>>

Tick == now < MaxTime /\ now' = now + 1 /\ UNCHANGED <<counts, request, accepted>>

Next == \/ Tick
        \/ \E r \in Requests : Begin(r) \/ Increment(r) \/ Commit(r) \/ Rollback(r)

Spec == Init /\ [][Next]_vars

--------------------------------------------------------------------------
\* The counters of the table and of the requests are well formed.
TypeOK ==
  /\ now \in 0 .. MaxTime
  /\ \A row \in DOMAIN counts : counts[row] \in Nat \ {0}
  /\ \A r \in Requests : /\ request[r].at \in {"idle", "open", "limited"}
                         /\ request[r].taken \in 0 .. Len(request[r].rows)

\* Whatever requests overlap, and whichever of their counters is full: a
\* counter stands at the number of the requests that were let through in its
\* window and no others, a request that is turned away having used up nothing
\* (rate-limit.ts:105), and no more are let through than its limit.
CountersAreExact ==
  /\ counts = accepted
  /\ \A row \in DOMAIN accepted : accepted[row] <= LimitOf(row)
=============================================================================
