------------------------- MODULE MailOutboxOutcomes -------------------------
(***************************************************************************)
(* Theorems about what becomes of a job of MailOutbox: its status has its  *)
(* cause, nobody who revoked it is sent to, and the table implements       *)
(* OutboxContract, however long batches stall.                             *)
(***************************************************************************)
EXTENDS MailOutboxProofs

Justified(row, j) ==
  /\ row.status = "absent" => row.attempts = 0
  /\ row.status = "sent" => accepted[j] > 0
  /\ row.status = "failed" => row.attempts = MaxAttempts
  /\ row.status = "suppressed" => j \in revoked
  /\ row.status \in {"queued", "processing"} => row.attempts < MaxAttempts

\* What a batch knows about a leased row is still true of the row, and what it
\* is about to write has its cause.
LaneJustified(r, j) ==
  /\ Holds(r, j) /\ Leased(r, j) => lane[r][j].seen = jobs[j].attempts
  /\ At(r, j) \in {"delivered", "marking"} => accepted[j] > 0
  /\ At(r, j) = "suppressing" => j \in revoked
  /\ At(r, j) = "leaseCheck" /\ Leased(r, j) => eligible[j] \/ j \in overtaken

\* Whatever a batch works on, or SMTP may still take, was once committed.
Known ==
  \A j \in Jobs :
    j \in limbo \/ (\E r \in Runs : Holds(r, j)) => jobs[j].status # "absent"

OutcomeInv ==
  /\ \A j \in Jobs : Justified(jobs[j], j)
  /\ \A j \in Jobs : ~eligible[j] => j \in revoked
  /\ \A r \in Runs, j \in Jobs : LaneJustified(r, j)
  /\ Known

\* What every step but Claim does: causes stay; rows stay, or lose their lease
\* for a justified status; lanes keep their copy of the row.
CausesStay ==
  \A j \in Jobs :
    /\ accepted[j] > 0 => accepted'[j] > 0
    /\ j \in revoked => j \in revoked'
    /\ ~eligible'[j] => j \in revoked'
    /\ eligible[j] \/ j \in overtaken =>
         \/ eligible'[j] \/ j \in overtaken'
         \/ jobs'[j].status # "processing"

RowsStay ==
  \A j \in Jobs :
    \/ /\ jobs'[j].status = jobs[j].status
       /\ jobs'[j].attempts = jobs[j].attempts
       /\ jobs'[j].owner = jobs[j].owner
    \/ /\ jobs'[j].status \notin {"processing", "absent"}
       /\ Justified(jobs[j], j)'

LanesStay ==
  /\ \A j \in limbo' : j \in limbo \/ \E r \in Runs : Holds(r, j)
  /\ \A r \in Runs, j \in Jobs : Holds(r, j)' =>
       /\ Holds(r, j)
       /\ lane'[r][j].seen = lane[r][j].seen
       /\ \/ At(r, j)' = At(r, j)
          \/ /\ At(r, j)' \in {"delivered", "marking"} => accepted'[j] > 0
             /\ At(r, j)' = "suppressing" => j \in revoked'
             /\ At(r, j)' = "leaseCheck" => eligible'[j]

Careful == CausesStay /\ RowsStay /\ LanesStay

LEMMA CarefulKeepsOutcomes ==
  ASSUME TypeOK, OutcomeInv, Careful
  PROVE  OutcomeInv'
<1>1. \A j \in Jobs : Justified(jobs[j], j)'
  BY DEF OutcomeInv, Careful, CausesStay, RowsStay, Justified
<1>2. \A j \in Jobs : (~eligible[j] => j \in revoked)'
  BY DEF Careful, CausesStay
<1>3. ASSUME NEW r \in Runs, NEW j \in Jobs PROVE LaneJustified(r, j)'
  <2>1. LaneJustified(r, j)
    BY DEF OutcomeInv
  <2>2. Leased(r, j)' => /\ Leased(r, j)
                         /\ jobs'[j].attempts = jobs[j].attempts
                         /\ eligible[j] \/ j \in overtaken
                              => eligible'[j] \/ j \in overtaken'
    BY DEF Careful, RowsStay, CausesStay, Leased
  <2>3. CASE Holds(r, j)'
    BY <2>1, <2>2, <2>3 DEF Careful, LanesStay, CausesStay, LaneJustified
  <2>4. CASE ~Holds(r, j)'
    BY <2>4 DEF Holds, LaneJustified
  <2>5. QED
    BY <2>3, <2>4
<1>4. Known'
  <2>1. SUFFICES ASSUME NEW j \in Jobs, (j \in limbo \/ \E r \in Runs : Holds(r, j))'
                 PROVE  jobs'[j].status # "absent"
    BY DEF Known
  <2>2. j \in limbo \/ \E r \in Runs : Holds(r, j)
    BY <2>1 DEF Careful, LanesStay
  <2>3. jobs[j].status # "absent"
    BY <2>2 DEF OutcomeInv, Known
  <2>4. QED
    BY <2>3 DEF Careful, RowsStay
<1>5. QED
  BY <1>1, <1>2, <1>3, <1>4 DEF OutcomeInv

\* Steps that leave the causes alone, and the shapes of a careful lane.
LEMMA SameCauses ==
  ASSUME OutcomeInv, UNCHANGED <<accepted, revoked, eligible, overtaken>>
  PROVE  CausesStay
BY DEF OutcomeInv, CausesStay

LEMMA LaneStays ==
  ASSUME TypeOK, NEW r \in Runs, NEW j \in Jobs, NEW l \in Lane,
         lane' = [lane EXCEPT ![r][j] = l],
         \A j1 \in limbo' : j1 \in limbo \/ Holds(r, j1),
         l.at # "none" =>
           /\ Holds(r, j)
           /\ l.seen = lane[r][j].seen
           /\ l.at \in {"delivered", "marking"} => accepted'[j] > 0
           /\ l.at = "suppressing" => j \in revoked'
           /\ l.at = "leaseCheck" => eligible'[j]
  PROVE  LanesStay
<1>1. /\ lane'[r][j] = l
      /\ \A r1 \in Runs, j1 \in Jobs :
           r1 # r \/ j1 # j => lane'[r1][j1] = lane[r1][j1]
  BY DEF TypeOK
<1>2. \A j1 \in limbo' : j1 \in limbo \/ \E r1 \in Runs : Holds(r1, j1)
  OBVIOUS
<1>3. QED
  BY <1>1, <1>2 DEF LanesStay, Holds, At

LEMMA RowStays ==
  ASSUME TypeOK, CausesStay, NEW r \in Runs, NEW j \in Jobs, NEW row \in Row,
         WriteIfLeased(r, j, row),
         Leased(r, j) => /\ row.status \notin {"processing", "absent"}
                         /\ Justified(row, j)
  PROVE  RowsStay
<1>1. CASE ~Leased(r, j)
  BY <1>1 DEF WriteIfLeased, RowsStay
<1>2. CASE Leased(r, j)
  <2>1. /\ jobs'[j] = row
        /\ \A j1 \in Jobs \ {j} : jobs'[j1] = jobs[j1]
    BY <1>2 DEF WriteIfLeased, TypeOK
  <2>2. row.status \notin {"processing", "absent"} /\ Justified(row, j)
    BY <1>2
  <2>3. Justified(jobs[j], j)'
    BY <2>1, <2>2 DEF Justified, CausesStay
  <2>4. QED
    BY <2>1, <2>2, <2>3 DEF RowsStay
<1>3. QED
  BY <1>1, <1>2

\* What a batch writes into a row it has leased is justified.
LEMMA WrittenRows ==
  ASSUME TypeOK, OutcomeInv, NEW r \in Runs, NEW j \in Jobs,
         Holds(r, j), Leased(r, j)
  PROVE  /\ FinalRow(r, j).status \in {"queued", "failed"}
         /\ Justified(FinalRow(r, j), j)
         /\ At(r, j) = "suppressing" =>
              /\ Unlocked(jobs[j], "suppressed", 0).status = "suppressed"
              /\ Justified(Unlocked(jobs[j], "suppressed", 0), j)
         /\ At(r, j) = "marking" =>
              /\ SentRow(jobs[j], lane[r][j].seen).status = "sent"
              /\ Justified(SentRow(jobs[j], lane[r][j].seen), j)
<1> DEFINE seen == lane[r][j].seen
<1>1. /\ jobs[j] \in Row /\ seen \in Nat /\ MaxAttempts \in Nat
      /\ jobs[j].status = "processing"
  BY OutboxAssumption DEF TypeOK, Lane, Leased
<1>2. LaneJustified(r, j) /\ Justified(jobs[j], j)
  BY DEF OutcomeInv
<1>3. jobs[j].attempts < MaxAttempts /\ seen = jobs[j].attempts
  BY <1>1, <1>2 DEF LaneJustified, Justified
<1> HIDE DEF seen
<1>4. ASSUME NEW s \in Statuses, NEW w
      PROVE  /\ Unlocked(jobs[j], s, w).status = s
             /\ Unlocked(jobs[j], s, w).attempts = jobs[j].attempts
  BY <1>1 DEF Unlocked, Row
<1>5. ASSUME NEW s \in Statuses, NEW w, NEW n
      PROVE  /\ [Unlocked(jobs[j], s, w) EXCEPT !.attempts = n].status = s
             /\ [Unlocked(jobs[j], s, w) EXCEPT !.attempts = n].attempts = n
  BY <1>1 DEF Unlocked, Row
<1>6. CASE Exhausted(seen)
  <2>1. seen + 1 = MaxAttempts
    BY <1>1, <1>3, <1>6 DEF Exhausted
  <2>2. RetryRow(jobs[j], seen)
          = [Unlocked(jobs[j], "failed", 0) EXCEPT !.attempts = seen + 1]
    BY <1>6 DEF RetryRow
  <2>3. /\ RetryRow(jobs[j], seen).status = "failed"
        /\ RetryRow(jobs[j], seen).attempts = MaxAttempts
    BY <1>5, <2>1, <2>2 DEF Statuses
  <2>4. QED
    BY <1>1, <1>3, <1>4, <1>5, <2>3, <1>2 DEF FinalRow, SentRow, Justified, LaneJustified,
       Statuses, seen
<1>7. CASE ~Exhausted(seen)
  <2>1. seen + 1 < MaxAttempts
    BY <1>1, <1>7 DEF Exhausted
  <2>2. RetryRow(jobs[j], seen)
          = [Unlocked(jobs[j], "queued", Delay[seen + 1]) EXCEPT !.attempts = seen + 1]
    BY <1>7 DEF RetryRow
  <2>3. /\ RetryRow(jobs[j], seen).status = "queued"
        /\ RetryRow(jobs[j], seen).attempts = seen + 1
    BY <1>5, <2>2 DEF Statuses
  <2>4. QED
    BY <1>1, <1>3, <1>4, <1>5, <2>1, <2>3, <1>2 DEF FinalRow, SentRow, Justified, LaneJustified,
       Statuses, seen
<1>8. QED
  BY <1>6, <1>7

\* A lane goes to another step, or leaves; the row is written or not.
LEMMA GoIsCareful ==
  ASSUME TypeOK, OutcomeInv, NEW r \in Runs, NEW j \in Jobs,
         NEW step \in LaneSteps, NEW timer, Moved(r, j, step, timer), Holds(r, j),
         CausesStay, RowsStay,
         \A j1 \in limbo' : j1 \in limbo \/ Holds(r, j1),
         step \in {"delivered", "marking"} => accepted'[j] > 0,
         step = "suppressing" => j \in revoked',
         step = "leaseCheck" => eligible'[j]
  PROVE  Careful
<1>1. PICK l \in Lane : /\ lane' = [lane EXCEPT ![r][j] = l]
                        /\ l.at = step /\ l.seen = lane[r][j].seen
  BY DEF Moved
<1>2. LanesStay
  BY <1>1, LaneStays
<1>3. QED
  BY <1>2 DEF Careful

LEMMA LeaveIsCareful ==
  ASSUME TypeOK, NEW r \in Runs, NEW j \in Jobs, LeaveLane(r, j),
         CausesStay, RowsStay, limbo' = limbo
  PROVE  Careful
<1>1. NoLane \in Lane /\ NoLane.at = "none"
  BY LaneType DEF NoLane
<1>2. LanesStay
  BY <1>1, LaneStays DEF LeaveLane
<1>3. QED
  BY <1>2 DEF Careful

LEMMA LaneStepIsCareful ==
  ASSUME TypeOK, OutcomeInv, NEW r \in Runs, NEW j \in Jobs, LaneStep(r, j)
  PROVE  Careful
<1>1. /\ jobs[j] \in Row /\ lane[r][j].seen \in Nat /\ SendTimeout \in Nat
      /\ Unlocked(jobs[j], "suppressed", 0) \in Row
      /\ SentRow(jobs[j], lane[r][j].seen) \in Row
  <2>1. jobs[j] \in Row /\ lane[r][j] \in Lane
    BY DEF TypeOK
  <2>2. lane[r][j].seen \in Nat /\ SendTimeout \in Nat
    BY <2>1, OutboxAssumption DEF Lane
  <2>3. Unlocked(jobs[j], "suppressed", 0) \in Row
    BY <2>1, UnlockedType DEF Statuses
  <2>4. QED
    BY <2>1, <2>2, <2>3, SentRowType
<1>2. jobs' = jobs => RowsStay
  BY DEF RowsStay
<1>3. UNCHANGED <<accepted, revoked, eligible, overtaken>> => CausesStay
  BY SameCauses
<1>4. LaneJustified(r, j) /\ (~eligible[j] => j \in revoked)
  BY DEF OutcomeInv
<1>5. CASE ReleaseOrRetry(r, j)
  <2>1. Holds(r, j) /\ CausesStay
    BY <1>3, <1>5 DEF ReleaseOrRetry, AtFinalWrite, CanTake, Holds, settings, history
  <2>2. RowsStay
    BY <1>5, <2>1, FinalRowType, WrittenRows, RowStays DEF ReleaseOrRetry
  <2>3. QED
    BY <1>5, <2>1, <2>2, LeaveIsCareful DEF ReleaseOrRetry, settings
<1>6. CASE CheckSuppression(r, j)
  <2>1. /\ Holds(r, j) /\ CausesStay /\ RowsStay
        /\ limbo' = limbo /\ revoked' = revoked /\ eligible' = eligible
    BY <1>2, <1>3, <1>6 DEF CheckSuppression, CanTake, Holds, settings, history
  <2>2. CASE eligible[j]
    <3>1. Moved(r, j, "leaseCheck", lane[r][j].timer)
      BY <1>6, <2>2, Moves DEF CheckSuppression, LaneSteps
    <3>2. QED
      BY <2>1, <2>2, <3>1, GoIsCareful DEF LaneSteps
  <2>3. CASE ~eligible[j]
    <3>1. Moved(r, j, "suppressing", lane[r][j].timer)
      BY <1>6, <2>3, Moves DEF CheckSuppression, LaneSteps
    <3>2. QED
      BY <1>4, <2>1, <2>3, <3>1, GoIsCareful DEF LaneSteps
  <2>4. QED
    BY <2>2, <2>3
<1>7. CASE MarkSuppressed(r, j)
  <2>1. Holds(r, j) /\ CausesStay
    BY <1>3, <1>7 DEF MarkSuppressed, Holds, settings, history
  <2>2. RowsStay
    BY <1>1, <1>7, <2>1, WrittenRows, RowStays DEF MarkSuppressed
  <2>3. QED
    BY <1>7, <2>1, <2>2, LeaveIsCareful DEF MarkSuppressed, settings
<1>8. CASE CheckLease(r, j)
  <2>1. Holds(r, j) /\ CausesStay /\ RowsStay /\ limbo' = limbo
    BY <1>2, <1>3, <1>8 DEF CheckLease, Holds, settings, history
  <2>2. CASE Leased(r, j)
    <3>1. Moved(r, j, "sending", SendTimeout)
      BY <1>1, <1>8, <2>2, Moves DEF CheckLease, LaneSteps, OnWire
    <3>2. QED
      BY <2>1, <3>1, GoIsCareful DEF LaneSteps, OnWire
  <2>3. CASE ~Leased(r, j)
    BY <1>8, <2>1, <2>3, LeaveIsCareful DEF CheckLease
  <2>4. QED
    BY <2>2, <2>3
<1>9. CASE SmtpAccepts(r, j)
  <2>1. accepted'[j] > 0 /\ \A j1 \in Jobs \ {j} : accepted'[j1] = accepted[j1]
    BY <1>9 DEF SmtpAccepts, OnceMore, TypeOK
  <2>2. Holds(r, j) /\ CausesStay /\ RowsStay /\ limbo' = limbo
    BY <1>2, <1>9, <2>1 DEF SmtpAccepts, Holds, settings, CausesStay, OutcomeInv
  <2>3. Moved(r, j, "delivered", lane[r][j].timer)
    BY <1>9, Moves DEF SmtpAccepts, LaneSteps, OnWire
  <2>4. QED
    BY <2>1, <2>2, <2>3, GoIsCareful DEF LaneSteps, OnWire
<1>10. CASE SmtpAnswers(r, j)
  <2>1. /\ Holds(r, j) /\ CausesStay /\ RowsStay /\ limbo' = limbo
        /\ accepted'[j] > 0
    BY <1>2, <1>3, <1>4, <1>10
       DEF SmtpAnswers, Holds, settings, history, LaneJustified
  <2>2. Moved(r, j, "marking", 0)
    BY <1>10, Moves DEF SmtpAnswers, LaneSteps
  <2>3. QED
    BY <2>1, <2>2, GoIsCareful DEF LaneSteps
<1>11. CASE SmtpFails(r, j)
  <2>1. Holds(r, j) /\ CausesStay /\ RowsStay /\ limbo' = limbo
    BY <1>2, <1>3, <1>11 DEF SmtpFails, Holds, OnWire, settings
  <2>2. Moved(r, j, "retry", 0)
    BY <1>11, Moves DEF SmtpFails, LaneSteps
  <2>3. QED
    BY <2>1, <2>2, GoIsCareful DEF LaneSteps
<1>12. CASE SendTimesOut(r, j)
  <2>1. /\ Holds(r, j) /\ CausesStay /\ RowsStay
        /\ \A j1 \in limbo' : j1 \in limbo \/ Holds(r, j1)
    BY <1>2, <1>3, <1>12 DEF SendTimesOut, Holds, OnWire
  <2>2. Moved(r, j, "retry", lane[r][j].timer)
    BY <1>12, Moves DEF SendTimesOut, LaneSteps
  <2>3. QED
    BY <2>1, <2>2, GoIsCareful DEF LaneSteps
<1>13. CASE MarkSent(r, j)
  <2>1. Holds(r, j) /\ CausesStay
    BY <1>3, <1>13 DEF MarkSent, Holds, settings, history
  <2>2. RowsStay
    BY <1>1, <1>13, <2>1, WrittenRows, RowStays DEF MarkSent
  <2>3. QED
    BY <1>13, <2>1, <2>2, LeaveIsCareful DEF MarkSent, settings
<1>14. QED
  BY <1>5, <1>6, <1>7, <1>8, <1>9, <1>10, <1>11, <1>12, <1>13 DEF LaneStep

LEMMA ThrowIsCareful ==
  ASSUME TypeOK, OutcomeInv, NEW r \in Runs, NEW j \in Jobs,
         FinalWriteThrows(r, j) \/ LaneCallThrows(r, j)
  PROVE  Careful
<1>1. /\ jobs[j] \in Row /\ lane[r][j].seen \in Nat
      /\ Unlocked(jobs[j], "suppressed", 0) \in Row
      /\ SentRow(jobs[j], lane[r][j].seen) \in Row
  <2>1. jobs[j] \in Row /\ lane[r][j] \in Lane
    BY DEF TypeOK
  <2>2. lane[r][j].seen \in Nat
    BY <2>1 DEF Lane
  <2>3. Unlocked(jobs[j], "suppressed", 0) \in Row
    BY <2>1, UnlockedType DEF Statuses
  <2>4. QED
    BY <2>1, <2>2, <2>3, SentRowType
<1>2. jobs' = jobs => RowsStay
  BY DEF RowsStay
<1>3. CausesStay /\ limbo' = limbo
  BY SameCauses DEF FinalWriteThrows, LaneCallThrows, settings, history
<1>4. Holds(r, j)
  BY DEF FinalWriteThrows, LaneCallThrows, AtFinalWrite, CanTake, Holds
<1>5. CASE FinalWriteThrows(r, j)
  <2>1. RowsStay
    BY <1>2, <1>3, <1>4, <1>5, FinalRowType, WrittenRows, RowStays
       DEF FinalWriteThrows
  <2>2. QED
    BY <1>3, <1>5, <2>1, LeaveIsCareful DEF FinalWriteThrows
<1>6. CASE LaneCallThrows(r, j)
  <2>1. \/ jobs' = jobs
        \/ /\ At(r, j) = "suppressing"
           /\ WriteIfLeased(r, j, Unlocked(jobs[j], "suppressed", 0))
        \/ /\ At(r, j) = "marking"
           /\ WriteIfLeased(r, j, SentRow(jobs[j], lane[r][j].seen))
    BY <1>6 DEF LaneCallThrows
  <2>2. RowsStay
    BY <1>1, <1>2, <1>3, <1>4, <2>1, WrittenRows, RowStays
  <2>3. Moved(r, j, "retry", lane[r][j].timer)
    BY <1>6, Moves DEF LaneCallThrows, LaneSteps
  <2>4. QED
    BY <1>3, <1>4, <2>2, <2>3, GoIsCareful DEF LaneSteps
<1>7. QED
  BY <1>5, <1>6

LEMMA BatchStepIsCareful ==
  ASSUME TypeOK, OutcomeInv, NEW r \in Runs,
         LoadConfig(r) \/ Finish(r) \/ Crash(r)
  PROVE  Careful
<1>1. RowsStay /\ CausesStay
  BY SameCauses DEF LoadConfig, Finish, Crash, RowsStay, settings, history
<1>2. CASE LoadConfig(r)
  BY <1>1, <1>2 DEF LoadConfig, Careful, LanesStay, Holds, At, settings
<1>3. CASE Finish(r) \/ Crash(r)
  <2>1. lane' = [lane EXCEPT ![r] = [j \in Jobs |-> NoLane]]
    BY <1>3 DEF Finish, Crash
  <2>2. \A j \in Jobs : lane'[r][j].at = "none"
    BY <2>1 DEF TypeOK, NoLane
  <2>3. \A r1 \in Runs \ {r} : lane'[r1] = lane[r1]
    BY <2>1 DEF TypeOK
  <2>4. \A j \in limbo' : j \in limbo \/ Holds(r, j)
    BY <1>3 DEF Finish, Crash, settings, Holds
  <2>5. QED
    BY <1>1, <2>2, <2>3, <2>4 DEF Careful, LanesStay, Holds, At
<1>4. QED
  BY <1>2, <1>3

\* What the site does to a row outside the worker: queue a new one, cancel it,
\* remove it, queue a failed one again.
LEMMA SiteStepIsCareful ==
  ASSUME TypeOK, OutcomeInv, NEW j \in Jobs,
         \/ Enqueue(j) \/ Revoke(j) \/ RevokeLate(j) \/ Restore(j)
         \/ Purge(j) \/ RetryFailed(j) \/ LateOutcome(j)
  PROVE  Careful
<1>1. LanesStay
  BY DEF Enqueue, Revoke, RevokeLate, RevokeLooks, RevokeOvertaken,
         Restore, Purge, RetryFailed, LateOutcome, LanesStay,
         Holds, At, settings
<1>2. /\ jobs \in [Jobs -> Row] /\ jobs[j] \in Row /\ MaxAttempts \in Nat \ {0}
      /\ Justified(jobs[j], j)
  BY OutboxAssumption DEF TypeOK, OutcomeInv
<1>3. UNCHANGED <<accepted, revoked, eligible, overtaken>> => CausesStay
  BY SameCauses
<1>4. jobs' = jobs => RowsStay
  BY DEF RowsStay
<1>5. CASE Enqueue(j)
  <2>1. CausesStay
    BY <1>3, <1>5 DEF Enqueue, settings, history
  <2>2. CASE jobs[j].status = "absent"
    <3>1. jobs' = [jobs EXCEPT ![j] = [jobs[j] EXCEPT !.status = "queued"]]
      BY <1>2, <1>5, <2>2 DEF Enqueue
    <3>2. jobs'[j].status = "queued" /\ jobs'[j].attempts = 0
      BY <1>2, <2>2, <3>1 DEF Justified, Row
    <3>3. \A j1 \in Jobs \ {j} : jobs'[j1] = jobs[j1]
      BY <3>1
    <3>4. Justified(jobs[j], j)'
      BY <1>2, <3>2 DEF Justified
    <3>5. QED
      BY <1>1, <2>1, <3>2, <3>3, <3>4 DEF Careful, RowsStay
  <2>3. CASE jobs[j].status # "absent"
    BY <1>1, <1>4, <1>5, <2>1, <2>3 DEF Enqueue, Careful
  <2>4. QED
    BY <2>2, <2>3
<1>6. CASE Revoke(j)
  <2>1. /\ revoked' = revoked \union {j} /\ accepted' = accepted
        /\ \A j1 \in Jobs \ {j} : eligible'[j1] = eligible[j1]
        /\ \A j1 \in Jobs \ {j} : j1 \in overtaken' <=> j1 \in overtaken
    BY <1>6 DEF Revoke, TypeOK
  <2>2. \A j1 \in Jobs \ {j} : jobs'[j1] = jobs[j1]
    BY <1>6 DEF Revoke, TypeOK
  <2>3. \/ jobs'[j] = jobs[j] /\ jobs[j].status \notin {"queued", "processing"}
        \/ jobs'[j].status = "suppressed"
    <3>1. Unlocked(jobs[j], "suppressed", 0).status = "suppressed"
      BY <1>2 DEF Unlocked, Row
    <3>2. QED
      BY <1>2, <1>6, <3>1 DEF Revoke
  <2>4. CausesStay
    BY <2>1, <2>3 DEF CausesStay, OutcomeInv
  <2>5. jobs'[j].status = "suppressed" => Justified(jobs[j], j)'
    BY <2>1 DEF Justified
  <2>6. RowsStay
    BY <2>2, <2>3, <2>5 DEF RowsStay
  <2>7. QED
    BY <1>1, <2>4, <2>6 DEF Careful
<1>12. CASE RevokeLate(j)
  <2>1. CausesStay
    BY <1>12 DEF RevokeLate, RevokeLooks, RevokeOvertaken, CausesStay,
                 OutcomeInv, TypeOK, history
  <2>2. QED
    BY <1>1, <1>4, <1>12, <2>1
       DEF RevokeLate, RevokeLooks, RevokeOvertaken, Careful
<1>7. CASE Restore(j)
  <2>1. CausesStay
    BY <1>7 DEF Restore, CausesStay, OutcomeInv, TypeOK, history
  <2>2. QED
    BY <1>1, <1>4, <1>7, <2>1 DEF Restore, Careful
<1>8. CASE Purge(j)
  <2>1. CausesStay
    BY <1>3, <1>8 DEF Purge, settings, history
  <2>2. jobs'[j].status = "purged" /\ \A j1 \in Jobs \ {j} : jobs'[j1] = jobs[j1]
    BY <1>2, <1>8 DEF Purge, AbsentRow
  <2>3. Justified(jobs[j], j)'
    BY <2>2 DEF Justified
  <2>4. QED
    BY <1>1, <2>1, <2>2, <2>3 DEF Careful, RowsStay
<1>9. CASE RetryFailed(j)
  <2>1. CausesStay
    BY <1>3, <1>9 DEF RetryFailed, history
  <2>2. /\ jobs'[j] = [Unlocked(jobs[j], "queued", 0) EXCEPT !.attempts = 0]
        /\ \A j1 \in Jobs \ {j} : jobs'[j1] = jobs[j1]
    BY <1>2, <1>9 DEF RetryFailed
  <2>3. jobs'[j].status = "queued" /\ jobs'[j].attempts = 0
    BY <1>2, <2>2 DEF Unlocked, Row
  <2>4. Justified(jobs[j], j)'
    BY <1>2, <2>3 DEF Justified
  <2>5. QED
    BY <1>1, <2>1, <2>2, <2>3, <2>4 DEF Careful, RowsStay
<1>10. CASE LateOutcome(j)
  <2>1. CausesStay
    BY <1>10 DEF LateOutcome, CausesStay, OnceMore, OutcomeInv, TypeOK
  <2>2. QED
    BY <1>1, <1>4, <1>10, <2>1 DEF LateOutcome, Careful
<1>11. QED
  BY <1>5, <1>6, <1>7, <1>8, <1>9, <1>10, <1>12

LEMMA ToggleIsCareful ==
  ASSUME OutcomeInv, Toggle
  PROVE  Careful
BY SameCauses DEF Toggle, Careful, RowsStay, LanesStay, Holds, At, history

\* Time changes neither the status, the attempts nor the owner of a row.
LEMMA TickKeepsRows ==
  ASSUME TypeOK, Tick
  PROVE  /\ \A j \in Jobs : /\ jobs'[j].status = jobs[j].status
                            /\ jobs'[j].attempts = jobs[j].attempts
                            /\ jobs'[j].owner = jobs[j].owner
         /\ \A r \in Runs, j \in Jobs : /\ At(r, j)' = At(r, j)
                                        /\ lane'[r][j].seen = lane[r][j].seen
<1>1. ASSUME NEW j \in Jobs
      PROVE  /\ jobs'[j].status = jobs[j].status
             /\ jobs'[j].attempts = jobs[j].attempts
             /\ jobs'[j].owner = jobs[j].owner
  <2>1. jobs[j] \in Row /\ jobs'[j] = Aged(jobs[j])
    BY DEF TypeOK, Tick
  <2> DEFINE w == IF jobs[j].wait > 0 THEN jobs[j].wait - 1 ELSE 0
             a == IF jobs[j].status = "processing" /\ jobs[j].age <= LockTimeout
                  THEN jobs[j].age + 1 ELSE jobs[j].age
  <2>2. jobs'[j] = [jobs[j] EXCEPT !.wait = w, !.age = a]
    BY <2>1 DEF Aged
  <2> HIDE DEF w, a
  <2>3. QED
    BY <2>1, <2>2 DEF Row
<1>2. ASSUME NEW r \in Runs, NEW j \in Jobs
      PROVE  At(r, j)' = At(r, j) /\ lane'[r][j].seen = lane[r][j].seen
  <2>1. lane[r][j] \in Lane
    BY DEF TypeOK
  <2>2. lane'[r][j] = [lane[r][j] EXCEPT !.timer =
           IF At(r, j) \in OnWire THEN lane[r][j].timer - 1
           ELSE lane[r][j].timer]
    BY DEF Tick
  <2>3. QED
    BY <2>1, <2>2 DEF Lane, At
<1>3. QED
  BY <1>1, <1>2

LEMMA TickIsCareful ==
  ASSUME TypeOK, OutcomeInv, Tick
  PROVE  Careful
<1>1. CausesStay /\ limbo' = limbo
  BY SameCauses DEF Tick, settings, history
<1>2. QED
  BY <1>1, TickKeepsRows DEF Careful, RowsStay, LanesStay, Holds

\* A claim copies the row into the lane; it leases only rows that still have
\* an attempt, and takes nothing from a batch that keeps its lease.
LEMMA ClaimKeepsOutcomes ==
  ASSUME TypeOK, OutcomeInv, NEW r \in Runs, Claim(r)
  PROVE  OutcomeInv'
<1>1. PICK stale \in SUBSET Jobs, taken \in SUBSET Jobs :
        /\ \A j \in stale : Stale(j)
        /\ \A j \in taken : Due(j) \/ j \in stale
        /\ Cardinality(taken) <= BatchSize
        /\ jobs' = [j \in Jobs |->
             IF j \in taken
             THEN [jobs[j] EXCEPT !.status = "processing", !.wait = 0,
                                  !.age = 0, !.owner = r]
             ELSE IF j \in stale THEN Unlocked(jobs[j], "queued", 0)
             ELSE jobs[j]]
        /\ lane' = [lane EXCEPT ![r] = [j \in Jobs |->
             IF j \in taken
             THEN [at |-> "pending", seen |-> jobs[j].attempts, timer |-> 0]
             ELSE NoLane]]
        /\ run' = [run EXCEPT ![r] = [phase |-> "loading",
                      lanes |-> Concurrency, idle |-> 0, busy |-> 0]]
  BY DEF Claim
<1>2. UNCHANGED <<accepted, revoked, eligible, overtaken, limbo>>
  BY DEF Claim, settings, history
<1>3. ASSUME NEW j \in Jobs
      PROVE  /\ jobs'[j].attempts = jobs[j].attempts
             /\ j \in taken => /\ jobs'[j].status = "processing"
                               /\ jobs'[j].owner = r
             /\ j \in stale \ taken => jobs'[j].status = "queued"
             /\ j \notin stale \union taken => jobs'[j] = jobs[j]
             /\ j \in stale \union taken =>
                  jobs[j].status \in {"queued", "processing"}
  <2>1. jobs[j] \in Row
    BY DEF TypeOK
  <2>2. QED
    BY <1>1, <2>1 DEF Unlocked, Row, Due, Stale
<1>4. \A j \in Jobs : Justified(jobs[j], j)'
  BY <1>2, <1>3 DEF OutcomeInv, Justified
<1>5. \A r1 \in Runs \ {r} : lane'[r1] = lane[r1]
  BY <1>1 DEF TypeOK
<1>6. ASSUME NEW j \in Jobs
      PROVE  IF j \in taken
             THEN At(r, j)' = "pending" /\ lane'[r][j].seen = jobs[j].attempts
             ELSE At(r, j)' = "none"
  BY <1>1 DEF At, NoLane, TypeOK
<1>7. ASSUME NEW r1 \in Runs, NEW j \in Jobs
      PROVE  LaneJustified(r1, j)'
  <2>1. CASE r1 = r
    BY <1>3, <1>6, <2>1 DEF LaneJustified, Holds
  <2>2. CASE r1 # r
    <3>1. LaneJustified(r1, j) /\ lane'[r1] = lane[r1]
      BY <1>5, <2>2 DEF OutcomeInv
    <3>2. Leased(r1, j)' => Leased(r1, j) /\ jobs'[j].attempts = jobs[j].attempts
      BY <1>3, <2>2 DEF Leased
    <3>3. QED
      BY <1>2, <3>1, <3>2 DEF LaneJustified, Holds, At
  <2>3. QED
    BY <2>1, <2>2
<1>8. Known'
  <2>1. ASSUME NEW j \in Jobs, jobs[j].status # "absent" \/ j \in taken
        PROVE  jobs'[j].status # "absent"
    BY <1>3, <2>1
  <2>2. \A r1 \in Runs, j \in Jobs : Holds(r1, j)' => Holds(r1, j) \/ j \in taken
    BY <1>5, <1>6 DEF Holds, At
  <2>3. QED
    BY <1>2, <2>1, <2>2 DEF OutcomeInv, Known
<1>9. QED
  BY <1>2, <1>4, <1>7, <1>8 DEF OutcomeInv

LEMMA OutcomeInit == Init => OutcomeInv
<1> SUFFICES ASSUME Init PROVE OutcomeInv
  OBVIOUS
<1>1. \A j \in Jobs : jobs[j].status = "absent" /\ jobs[j].attempts = 0
  BY DEF Init, AbsentRow
<1>2. \A r \in Runs, j \in Jobs : At(r, j) = "none"
  BY DEF Init, At, NoLane
<1>3. QED
  BY <1>1, <1>2 DEF Init, OutcomeInv, Justified, LaneJustified, Known, Holds

LEMMA OutcomeStep ==
  ASSUME TypeOK, OutcomeInv, [Next]_vars
  PROVE  OutcomeInv'
<1>1. CASE UNCHANGED vars
  BY <1>1 DEF vars, OutcomeInv, Justified, LaneJustified, Known, Holds, Leased, At
<1>2. CASE \E r \in Runs : Claim(r)
  BY <1>2, ClaimKeepsOutcomes
<1>3. CASE Next /\ ~\E r \in Runs : Claim(r)
  <2>1. Careful
    BY <1>3, LaneStepIsCareful, ThrowIsCareful, BatchStepIsCareful,
       SiteStepIsCareful, ToggleIsCareful, TickIsCareful DEF Next
  <2>2. QED
    BY <2>1, CarefulKeepsOutcomes
<1>4. QED
  BY <1>1, <1>2, <1>3

LEMMA OutcomeInvariant == Spec => []OutcomeInv
<1>1. TypeOK /\ OutcomeInv /\ [Next]_vars => OutcomeInv'
  BY OutcomeStep
<1>2. QED
  BY OutcomeInit, TypeCorrect, <1>1, PTL DEF Spec

\* The attempt number a lane computes from its copy of a row is the row's own
\* while the lease lasts, however many batches, retries and stalls there are.
THEOREM CopyIsFresh == Spec => []SnapshotFresh
<1>1. OutcomeInv => SnapshotFresh
  BY DEF OutcomeInv, LaneJustified, SnapshotFresh
<1>2. QED
  BY OutcomeInvariant, <1>1, PTL

\* Sent only if SMTP took it, failed only after MAX_ATTEMPTS attempts,
\* suppressed only after a revocation, and open only with an attempt left.
THEOREM EveryOutcomeHasItsCause == Spec => []OutcomeJustified
<1>1. OutcomeInv => OutcomeJustified
  BY DEF OutcomeInv, Justified, OutcomeJustified
<1>2. QED
  BY OutcomeInvariant, <1>1, PTL
-----------------------------------------------------------------------------
(* Sends. *)

\* A send begins only in CheckLease, with the lease in hand.
LEMMA SendBegins ==
  ASSUME TypeOK, [Next]_vars, NEW r \in Runs, NEW j \in Jobs,
         At(r, j) # "sending", At(r, j)' = "sending"
  PROVE  CheckLease(r, j) /\ Leased(r, j)
<1>1. ASSUME NEW r1 \in Runs, NEW j1 \in Jobs, NEW l,
             lane' = [lane EXCEPT ![r1][j1] = l], l.at # "sending"
      PROVE  FALSE
  BY <1>1 DEF TypeOK, At
<1>2. ASSUME NEW r1 \in Runs, lane' = [lane EXCEPT ![r1] = [k \in Jobs |-> NoLane]]
      PROVE  FALSE
  BY <1>2 DEF TypeOK, At, NoLane
<1>3. ASSUME NEW r1 \in Runs, NEW j1 \in Jobs, NEW step, NEW timer,
             Moved(r1, j1, step, timer), step # "sending"
      PROVE  FALSE
  BY <1>1, <1>3 DEF Moved
<1>4. ASSUME NEW r1 \in Runs, NEW j1 \in Jobs, LeaveLane(r1, j1)
      PROVE  FALSE
  <2>1. NoLane.at # "sending"
    BY DEF NoLane
  <2>2. QED
    BY <1>1, <1>4, <2>1 DEF LeaveLane
<1>5. ~UNCHANGED lane
  BY DEF At
<1>6. ASSUME NEW r1 \in Runs, NEW j1 \in Jobs, LaneStep(r1, j1),
             ~CheckLease(r1, j1)
      PROVE  FALSE
  <2>1. CASE \/ ReleaseOrRetry(r1, j1) \/ MarkSuppressed(r1, j1)
             \/ MarkSent(r1, j1)
    BY <1>4, <2>1 DEF ReleaseOrRetry, MarkSuppressed, MarkSent
  <2>2. CASE CheckSuppression(r1, j1)
    <3>1. \/ Moved(r1, j1, "leaseCheck", lane[r1][j1].timer)
          \/ Moved(r1, j1, "suppressing", lane[r1][j1].timer)
      BY <2>2, Moves DEF CheckSuppression, LaneSteps
    <3>2. QED
      BY <1>3, <3>1
  <2>3. CASE SmtpAccepts(r1, j1)
    <3>1. Moved(r1, j1, "delivered", lane[r1][j1].timer)
      BY <2>3, Moves DEF SmtpAccepts, LaneSteps, OnWire
    <3>2. QED
      BY <1>3, <3>1
  <2>4. CASE SmtpAnswers(r1, j1)
    <3>1. Moved(r1, j1, "marking", 0)
      BY <2>4, Moves DEF SmtpAnswers, LaneSteps
    <3>2. QED
      BY <1>3, <3>1
  <2>5. CASE SmtpFails(r1, j1)
    <3>1. Moved(r1, j1, "retry", 0)
      BY <2>5, Moves DEF SmtpFails, LaneSteps
    <3>2. QED
      BY <1>3, <3>1
  <2>6. CASE SendTimesOut(r1, j1)
    <3>1. Moved(r1, j1, "retry", lane[r1][j1].timer)
      BY <2>6, Moves DEF SendTimesOut, LaneSteps
    <3>2. QED
      BY <1>3, <3>1
  <2>7. QED
    BY <1>6, <2>1, <2>2, <2>3, <2>4, <2>5, <2>6 DEF LaneStep
<1>7. ASSUME NEW r1 \in Runs, NEW j1 \in Jobs,
             FinalWriteThrows(r1, j1) \/ LaneCallThrows(r1, j1)
      PROVE  FALSE
  <2>1. LaneCallThrows(r1, j1) => Moved(r1, j1, "retry", lane[r1][j1].timer)
    BY Moves DEF LaneCallThrows, LaneSteps
  <2>2. QED
    BY <1>3, <1>4, <1>7, <2>1 DEF FinalWriteThrows
<1>8. ASSUME NEW r1 \in Runs, Claim(r1)
      PROVE  FALSE
  <2>1. PICK taken \in SUBSET Jobs :
          lane' = [lane EXCEPT ![r1] = [k \in Jobs |->
             IF k \in taken
             THEN [at |-> "pending", seen |-> jobs[k].attempts, timer |-> 0]
             ELSE NoLane]]
    BY <1>8 DEF Claim
  <2>2. QED
    BY <2>1 DEF At, NoLane, TypeOK
<1>9. ASSUME NEW r1 \in Runs, LoadConfig(r1) \/ Finish(r1) \/ Crash(r1)
      PROVE  FALSE
  BY <1>2, <1>5, <1>9 DEF LoadConfig, Finish, Crash
<1>10. ASSUME NEW j1 \in Jobs,
              \/ Enqueue(j1) \/ Revoke(j1) \/ RevokeLate(j1) \/ Restore(j1)
              \/ Purge(j1) \/ RetryFailed(j1) \/ LateOutcome(j1)
       PROVE  FALSE
  BY <1>5, <1>10 DEF Enqueue, Revoke, RevokeLate, RevokeLooks, RevokeOvertaken,
         Restore, Purge, RetryFailed, LateOutcome
<1>11. ~Toggle /\ ~Tick /\ ~UNCHANGED vars
  BY <1>5, TickKeepsRows DEF Toggle, vars
<1>12. PICK r1 \in Runs, j1 \in Jobs : CheckLease(r1, j1)
  BY <1>6, <1>7, <1>8, <1>9, <1>10, <1>11 DEF Next
<1>13. r1 = r /\ j1 = j
  <2>1. Leased(r1, j1) /\ SendTimeout \in Nat
    BY <1>4, <1>12, OutboxAssumption DEF CheckLease
  <2>2. Moved(r1, j1, "sending", SendTimeout)
    BY <1>12, <2>1, Moves DEF CheckLease, LaneSteps, OnWire
  <2>3. PICK l \in Lane : lane' = [lane EXCEPT ![r1][j1] = l]
    BY <2>2 DEF Moved
  <2>4. QED
    BY <2>3 DEF At, TypeOK
<1>14. Leased(r, j)
  BY <1>4, <1>12, <1>13 DEF CheckLease
<1>15. QED
  BY <1>12, <1>13, <1>14

\* The lease is read last, and a revocation takes it away: so the person a
\* send is begun for is not revoked at that moment, unless the job was queued
\* while the revocation was under way.
THEOREM NobodyRevokedIsSentTo == Spec => SendStartsEligible
<1>1. ASSUME TypeOK, OutcomeInv, [Next]_vars,
             NEW r \in Runs, NEW j \in Jobs,
             At(r, j) # "sending", At(r, j)' = "sending"
      PROVE  eligible[j] \/ j \in overtaken
  <2>1. CheckLease(r, j) /\ Leased(r, j)
    BY <1>1, SendBegins
  <2>2. LaneJustified(r, j)
    BY <1>1 DEF OutcomeInv
  <2>3. QED
    BY <2>1, <2>2 DEF CheckLease, LaneJustified
<1>2. TypeOK /\ OutcomeInv /\ [Next]_vars =>
        [\A r \in Runs, j \in Jobs :
           At(r, j) # "sending" /\ At(r, j)' = "sending"
             => eligible[j] \/ j \in overtaken]_vars
  BY <1>1
<1>3. QED
  BY TypeCorrect, OutcomeInvariant, <1>2, PTL DEF Spec, SendStartsEligible
-----------------------------------------------------------------------------
(* The table implements the contract: each step settles, commits, reopens,   *)
(* withdraws or erases one job, or leaves every fate as it is.               *)

\* A step that moves one row moves one fate.
LEMMA FateMoves ==
  ASSUME TypeOK, NEW j \in Jobs,
         \A j1 \in Jobs \ {j} : jobs'[j1] = jobs[j1]
  PROVE  /\ Fate[j] = FateOf(jobs[j])
         /\ Fate' = [Fate EXCEPT ![j] = FateOf(jobs'[j])]
<1>1. Fate' = [k \in Jobs |-> FateOf(jobs'[k])]
  BY DEF Fate, FateOf
<1>2. QED
  BY <1>1 DEF Fate

LEMMA FateStays ==
  ASSUME \A j \in Jobs : FateOf(jobs'[j]) = FateOf(jobs[j])
  PROVE  Fate' = Fate
BY DEF Fate, FateOf

LEMMA WriteSettles ==
  ASSUME TypeOK, OutcomeInv, NEW r \in Runs, NEW j \in Jobs, NEW row \in Row,
         WriteIfLeased(r, j, row), UNCHANGED <<accepted, revoked>>,
         Leased(r, j) => /\ row.status \in {"queued", "failed", "sent", "suppressed"}
                         /\ Justified(row, j)
  PROVE  [Contract!ContractNext]_Contract!contractVars
<1>1. CASE jobs' = jobs
  <2>1. Fate' = Fate
    BY <1>1, FateStays
  <2>2. QED
    BY <2>1 DEF Contract!contractVars
<1>2. CASE Leased(r, j)
  <2>1. jobs'[j] = row /\ \A j1 \in Jobs \ {j} : jobs'[j1] = jobs[j1]
    BY <1>2 DEF WriteIfLeased, TypeOK
  <2>2. /\ Fate[j] = "pending"
        /\ Fate' = [Fate EXCEPT ![j] = FateOf(row)]
    BY <1>2, <2>1, FateMoves DEF FateOf, Leased
  <2>3. CASE row.status = "queued"
    <3>1. FateOf(row) = Fate[j]
      BY <2>2, <2>3 DEF FateOf
    <3>2. Fate' = Fate
      BY <2>2, <3>1 DEF Fate
    <3>3. QED
      BY <3>2 DEF Contract!contractVars
  <2>4. CASE row.status \in {"failed", "sent", "suppressed"}
    <3>1. FateOf(row) = row.status
      BY <2>4 DEF FateOf
    <3>2. /\ row.status = "sent" => accepted[j] > 0
          /\ row.status = "suppressed" => j \in revoked
      BY <1>2 DEF Justified
    <3>3. Contract!Settle(j, row.status)
      BY <2>2, <3>1, <3>2 DEF Contract!Settle
    <3>4. QED
      BY <2>4, <3>3 DEF Contract!ContractNext
  <2>5. QED
    BY <1>2, <2>3, <2>4
<1>3. QED
  BY <1>1, <1>2 DEF WriteIfLeased

LEMMA LaneStepImplements ==
  ASSUME TypeOK, OutcomeInv, NEW r \in Runs, NEW j \in Jobs,
         \/ LaneStep(r, j) \/ FinalWriteThrows(r, j) \/ LaneCallThrows(r, j)
  PROVE  [Contract!ContractNext]_Contract!contractVars
<1>1. /\ Unlocked(jobs[j], "suppressed", 0) \in Row
      /\ SentRow(jobs[j], lane[r][j].seen) \in Row
      /\ FinalRow(r, j) \in Row
  BY UnlockedType, SentRowType, FinalRowType DEF TypeOK, Lane, Statuses
<1>2. CASE UNCHANGED <<jobs, accepted, revoked>>
  <2>1. Fate' = Fate
    BY <1>2, FateStays
  <2>2. QED
    BY <1>2, <2>1 DEF Contract!contractVars
<1>3. CASE SmtpAccepts(r, j)
  <2>1. jobs[j].status # "absent" /\ jobs' = jobs
    BY <1>3 DEF SmtpAccepts, OutcomeInv, Known, Holds
  <2>2. Fate' = Fate /\ Fate[j] # "absent"
    BY <2>1, FateStays, FateMoves DEF FateOf
  <2>3. Contract!Accept(j)
    BY <1>3, <2>2 DEF SmtpAccepts, Contract!Accept, OnceMore, Contract!OnceMore
  <2>4. QED
    BY <2>3 DEF Contract!ContractNext
<1>4. CASE /\ Holds(r, j) /\ UNCHANGED <<accepted, revoked>>
           /\ WriteIfLeased(r, j, FinalRow(r, j))
  BY <1>1, <1>4, WrittenRows, WriteSettles
<1>5. CASE /\ At(r, j) = "suppressing" /\ UNCHANGED <<accepted, revoked>>
           /\ WriteIfLeased(r, j, Unlocked(jobs[j], "suppressed", 0))
  <2>1. Holds(r, j)
    BY <1>5 DEF Holds
  <2>2. QED
    BY <1>1, <1>5, <2>1, WrittenRows, WriteSettles
<1>6. CASE /\ At(r, j) = "marking" /\ UNCHANGED <<accepted, revoked>>
           /\ WriteIfLeased(r, j, SentRow(jobs[j], lane[r][j].seen))
  <2>1. Holds(r, j)
    BY <1>6 DEF Holds
  <2>2. QED
    BY <1>1, <1>6, <2>1, WrittenRows, WriteSettles
<1>7. AtFinalWrite(r, j) => Holds(r, j)
  BY DEF AtFinalWrite, CanTake, Holds
<1>8. CASE ReleaseOrRetry(r, j) \/ FinalWriteThrows(r, j)
  BY <1>2, <1>4, <1>7, <1>8 DEF ReleaseOrRetry, FinalWriteThrows, history
<1>9. CASE MarkSuppressed(r, j) \/ MarkSent(r, j) \/ LaneCallThrows(r, j)
  BY <1>2, <1>5, <1>6, <1>9 DEF MarkSuppressed, MarkSent, LaneCallThrows, history
<1>10. CASE \/ CheckSuppression(r, j) \/ CheckLease(r, j) \/ SmtpAnswers(r, j)
            \/ SmtpFails(r, j) \/ SendTimesOut(r, j)
  BY <1>2, <1>10 DEF CheckSuppression, CheckLease, SmtpAnswers, SmtpFails,
     SendTimesOut, history
<1>11. QED
  BY <1>3, <1>8, <1>9, <1>10 DEF LaneStep

LEMMA BatchStepImplements ==
  ASSUME TypeOK,
         \/ \E r \in Runs : Claim(r) \/ LoadConfig(r) \/ Finish(r) \/ Crash(r)
         \/ Toggle \/ Tick
  PROVE  [Contract!ContractNext]_Contract!contractVars
<1>1. UNCHANGED <<accepted, revoked>>
  BY DEF Claim, LoadConfig, Finish, Crash, Toggle, Tick, history
<1>2. CASE \E r \in Runs : Claim(r)
  <2>1. PICK r \in Runs : Claim(r)
    BY <1>2
  <2>2. PICK stale \in SUBSET Jobs, taken \in SUBSET Jobs :
        /\ \A j \in stale : Stale(j)
        /\ \A j \in taken : Due(j) \/ j \in stale
        /\ Cardinality(taken) <= BatchSize
        /\ jobs' = [j \in Jobs |->
             IF j \in taken
             THEN [jobs[j] EXCEPT !.status = "processing", !.wait = 0,
                                  !.age = 0, !.owner = r]
             ELSE IF j \in stale THEN Unlocked(jobs[j], "queued", 0)
             ELSE jobs[j]]
        /\ lane' = [lane EXCEPT ![r] = [j \in Jobs |->
             IF j \in taken
             THEN [at |-> "pending", seen |-> jobs[j].attempts, timer |-> 0]
             ELSE NoLane]]
        /\ run' = [run EXCEPT ![r] = [phase |-> "loading",
                      lanes |-> Concurrency, idle |-> 0, busy |-> 0]]
    BY <2>1 DEF Claim
  <2>3. ASSUME NEW j \in Jobs PROVE FateOf(jobs'[j]) = FateOf(jobs[j])
    <3>1. jobs[j] \in Row
      BY DEF TypeOK
    <3>2. CASE j \in stale \union taken
      <4>1. jobs[j].status \in {"queued", "processing"}
        BY <2>2, <3>2 DEF Due, Stale
      <4>2. jobs'[j].status \in {"queued", "processing"}
        BY <2>2, <3>1, <3>2 DEF Unlocked, Row
      <4>3. QED
        BY <4>1, <4>2 DEF FateOf
    <3>3. CASE j \notin stale \union taken
      BY <2>2, <3>3
    <3>4. QED
      BY <3>2, <3>3
  <2>4. QED
    BY <1>1, <2>3, FateStays DEF Contract!contractVars
<1>3. CASE Tick
  <2>1. \A j \in Jobs : FateOf(jobs'[j]) = FateOf(jobs[j])
    BY <1>3, TickKeepsRows DEF FateOf
  <2>2. QED
    BY <1>1, <2>1, FateStays DEF Contract!contractVars
<1>4. CASE jobs' = jobs
  BY <1>1, <1>4, FateStays DEF Contract!contractVars
<1>5. QED
  BY <1>2, <1>3, <1>4 DEF LoadConfig, Finish, Crash, Toggle

LEMMA SiteStepImplements ==
  ASSUME TypeOK, OutcomeInv, NEW j \in Jobs,
         \/ Enqueue(j) \/ Revoke(j) \/ RevokeLate(j) \/ Restore(j)
         \/ Purge(j) \/ RetryFailed(j) \/ LateOutcome(j)
  PROVE  [Contract!ContractNext]_Contract!contractVars
<1>1. \A j1 \in Jobs \ {j} : jobs'[j1] = jobs[j1]
  BY DEF Enqueue, Revoke, RevokeLate, RevokeLooks, RevokeOvertaken,
         Restore, Purge, RetryFailed, LateOutcome, TypeOK
<1>2. /\ Fate[j] = FateOf(jobs[j])
      /\ Fate' = [Fate EXCEPT ![j] = FateOf(jobs'[j])]
  BY <1>1, FateMoves
<1>3. jobs \in [Jobs -> Row] /\ jobs[j] \in Row /\ Fate = [k \in Jobs |-> Fate[k]]
  BY DEF TypeOK, Fate
<1>4. FateOf(jobs'[j]) = Fate[j] => Fate' = Fate
  BY <1>2, <1>3
<1>5. CASE Enqueue(j)
  <2>1. UNCHANGED <<accepted, revoked>>
    BY <1>5 DEF Enqueue, history
  <2>2. CASE jobs[j].status = "absent"
    <3>1. jobs' = [jobs EXCEPT ![j] = [jobs[j] EXCEPT !.status = "queued"]]
      BY <1>3, <1>5, <2>2 DEF Enqueue
    <3>2. jobs'[j].status = "queued"
      BY <1>3, <3>1 DEF Row
    <3>3. Contract!Commit(j)
      BY <1>2, <2>1, <2>2, <3>2 DEF Contract!Commit, FateOf
    <3>4. QED
      BY <3>3 DEF Contract!ContractNext
  <2>3. CASE jobs[j].status # "absent"
    BY <1>2, <1>4, <1>5, <2>1, <2>3 DEF Enqueue, Contract!contractVars
  <2>4. QED
    BY <2>2, <2>3
<1>6. CASE Revoke(j)
  <2>1. FateOf(jobs'[j]) = IF Fate[j] = "pending" THEN "suppressed" ELSE Fate[j]
    <3>1. Unlocked(jobs[j], "suppressed", 0).status = "suppressed"
      BY <1>3 DEF Unlocked, Row
    <3>2. CASE jobs[j].status \in {"queued", "processing"}
      BY <1>2, <1>3, <1>6, <3>1, <3>2 DEF Revoke, FateOf
    <3>3. CASE jobs[j].status \notin {"queued", "processing"}
      <4>1. jobs' = jobs /\ jobs[j].status \in Statuses
        BY <1>3, <1>6, <3>3 DEF Revoke, Row
      <4>2. QED
        BY <1>2, <3>3, <4>1 DEF FateOf, Statuses
    <3>4. QED
      BY <3>2, <3>3
  <2>2. Contract!Withdraw(j)
    BY <1>2, <1>6, <2>1 DEF Revoke, Contract!Withdraw
  <2>3. QED
    BY <2>2 DEF Contract!ContractNext
<1>7. CASE Purge(j)
  <2>1. jobs'[j].status = "purged" /\ jobs[j].status # "absent"
    BY <1>3, <1>7 DEF Purge, AbsentRow
  <2>2. Contract!Erase(j)
    BY <1>2, <1>7, <2>1 DEF Purge, Contract!Erase, FateOf, history
  <2>3. QED
    BY <2>2 DEF Contract!ContractNext
<1>8. CASE RetryFailed(j)
  <2>1. jobs'[j].status = "queued" /\ jobs[j].status = "failed"
    BY <1>3, <1>8 DEF RetryFailed, Unlocked, Row
  <2>2. Contract!Reopen(j)
    BY <1>2, <1>8, <2>1 DEF RetryFailed, Contract!Reopen, FateOf, history
  <2>3. QED
    BY <2>2 DEF Contract!ContractNext
<1>9. CASE Restore(j)
  BY <1>2, <1>4, <1>9 DEF Restore, history, Contract!contractVars
<1>12. CASE RevokeLooks(j)
  BY <1>2, <1>4, <1>12 DEF RevokeLooks, history, Contract!contractVars
<1>13. CASE RevokeOvertaken(j)
  <2>1. Contract!Withdraw(j)
    BY <1>2, <1>4, <1>13 DEF RevokeOvertaken, Contract!Withdraw
  <2>2. QED
    BY <2>1 DEF Contract!ContractNext
<1>10. CASE LateOutcome(j)
  <2>1. jobs[j].status # "absent" /\ jobs' = jobs /\ revoked' = revoked
    BY <1>10 DEF LateOutcome, OutcomeInv, Known
  <2>2. Fate' = Fate /\ Fate[j] # "absent"
    BY <1>2, <1>4, <2>1 DEF FateOf
  <2>3. Contract!Accept(j) \/ UNCHANGED <<Fate, accepted, revoked>>
    BY <1>10, <2>1, <2>2
       DEF LateOutcome, Contract!Accept, OnceMore, Contract!OnceMore
  <2>4. QED
    BY <2>3 DEF Contract!ContractNext, Contract!contractVars
<1>11. QED
  BY <1>5, <1>6, <1>7, <1>8, <1>9, <1>10, <1>12, <1>13 DEF RevokeLate

\* A committed job is delivered, visibly given up or cancelled with a cause,
\* never lost and never revived: whatever crashes, stalls and duplicates do.
THEOREM OutboxKeepsItsContract == Spec => ImplementsContract
<1>1. Init => Contract!ContractInit
  BY DEF Init, Contract!ContractInit, Fate, FateOf, AbsentRow
<1>2. TypeOK /\ OutcomeInv /\ [Next]_vars =>
        [Contract!ContractNext]_Contract!contractVars
  <2>1. CASE UNCHANGED vars
    BY <2>1 DEF vars, Contract!contractVars, Fate, FateOf
  <2>2. ASSUME TypeOK, OutcomeInv, Next
        PROVE  [Contract!ContractNext]_Contract!contractVars
    BY <2>2, LaneStepImplements, BatchStepImplements, SiteStepImplements DEF Next
  <2>3. QED
    BY <2>1, <2>2
<1>3. QED
  BY TypeCorrect, OutcomeInvariant, <1>1, <1>2, PTL
     DEF Spec, ImplementsContract, Contract!ContractSpec
-----------------------------------------------------------------------------
(* Duplicates.  A job no outcome of which was lost is accepted at most once: *)
(* after that it is in the hands of the batch that heard the answer, or its  *)
(* row has ended.                                                            *)

AnswerSteps == {"delivered", "marking"}
Answered(j) == \E r \in Runs : At(r, j) \in AnswerSteps

OnceInv ==
  /\ limbo \subseteq lost
  /\ \A j \in Jobs \ lost :
       /\ accepted[j] \in {0, 1}
       /\ accepted[j] = 1 => jobs[j].status \in Terminal \/ Answered(j)
       /\ (\E r \in Runs : At(r, j) = "sending") => accepted[j] = 0

\* What every step does about the jobs whose outcome it does not lose: an
\* answer stays in hand until the row ends, and is heard for a send only.
Frugal ==
  /\ lost \subseteq lost' /\ limbo' \subseteq lost'
  /\ \A j \in Jobs \ lost' :
       /\ Answered(j) => Answered(j)' \/ jobs'[j].status \in Terminal
       /\ \/ accepted'[j] = accepted[j]
          \/ /\ \E r \in Runs : At(r, j) = "sending"
             /\ accepted'[j] = OnceMore(accepted[j])
             /\ Answered(j)'

LEMMA TerminalStays ==
  ASSUME TypeOK, OutcomeInv, [Next]_vars, NEW j \in Jobs,
         jobs[j].status \in Terminal
  PROVE  jobs'[j].status \in Terminal
<1>1. [Contract!ContractNext]_Contract!contractVars
  <2>1. CASE UNCHANGED vars
    BY <2>1 DEF vars, Contract!contractVars, Fate, FateOf
  <2>2. CASE Next
    BY <2>2, LaneStepImplements, BatchStepImplements, SiteStepImplements DEF Next
  <2>3. QED
    BY <2>1, <2>2
<1>2. Fate[j] \in Terminal
  BY DEF Fate, FateOf, Terminal
<1>3. Fate'[j] \in Terminal
  <2>1. CASE Fate' = Fate
    BY <1>2, <2>1
  <2>2. ASSUME NEW j1 \in Jobs, NEW f, Fate' = [Fate EXCEPT ![j1] = f],
               j1 # j \/ f \in Terminal
        PROVE  Fate'[j] \in Terminal
    BY <1>2, <2>2 DEF Fate
  <2>3. ASSUME NEW j1 \in Jobs, \/ Contract!Commit(j1) \/ Contract!Reopen(j1)
                                \/ Contract!Settle(j1, "sent")
                                \/ Contract!Settle(j1, "failed")
                                \/ Contract!Settle(j1, "suppressed")
        PROVE  Fate'[j] \in Terminal
    BY <1>2, <2>2, <2>3
       DEF Contract!Commit, Contract!Reopen, Contract!Settle, Terminal
  <2>4. ASSUME NEW j1 \in Jobs, Contract!Withdraw(j1)
        PROVE  Fate'[j] \in Terminal
    BY <1>2, <2>2, <2>4 DEF Contract!Withdraw, Terminal
  <2>5. ASSUME NEW j1 \in Jobs, Contract!Erase(j1)
        PROVE  Fate'[j] \in Terminal
    BY <2>2, <2>5 DEF Contract!Erase, Terminal
  <2>6. ASSUME NEW j1 \in Jobs, Contract!Accept(j1)
        PROVE  Fate' = Fate
    BY <2>6 DEF Contract!Accept
  <2>7. QED
    BY <1>1, <2>1, <2>3, <2>4, <2>5, <2>6
       DEF Contract!ContractNext, Contract!contractVars
<1>4. QED
  BY <1>3 DEF Fate, FateOf, Terminal

LEMMA FrugalKeepsOnce ==
  ASSUME TypeOK, OutcomeInv, [Next]_vars, HeldOnce, HeldOnce', OnceInv, Frugal
  PROVE  OnceInv'
<1>1. ASSUME NEW j \in Jobs \ lost'
      PROVE  /\ accepted'[j] \in {0, 1}
             /\ accepted'[j] = 1 => jobs'[j].status \in Terminal \/ Answered(j)'
             /\ (\E r \in Runs : At(r, j)' = "sending") => accepted'[j] = 0
  <2>1. /\ accepted[j] \in {0, 1}
        /\ accepted[j] = 1 => jobs[j].status \in Terminal \/ Answered(j)
        /\ (\E r \in Runs : At(r, j) = "sending") => accepted[j] = 0
    BY <1>1 DEF OnceInv, Frugal
  <2>2. /\ Answered(j) => Answered(j)' \/ jobs'[j].status \in Terminal
        /\ \/ accepted'[j] = accepted[j]
           \/ accepted[j] = 0 /\ accepted'[j] = 1 /\ Answered(j)'
    BY <1>1, <2>1 DEF Frugal, OnceMore
  <2>3. jobs[j].status \in Terminal => jobs'[j].status \in Terminal
    BY TerminalStays
  <2>4. ASSUME NEW r \in Runs, At(r, j)' = "sending" PROVE accepted'[j] = 0
    <3>1. ~Answered(j)'
      BY <2>4 DEF HeldOnce, Holds, Answered, AnswerSteps
    <3>2. accepted'[j] = accepted[j]
      BY <2>2, <3>1
    <3>3. CASE At(r, j) = "sending"
      BY <2>1, <3>2, <3>3
    <3>4. CASE At(r, j) # "sending"
      <4>1. At(r, j) = "leaseCheck" /\ jobs[j].status = "processing"
        BY <2>4, <3>4, SendBegins DEF CheckLease, Leased
      <4>2. ~Answered(j)
        BY <4>1 DEF HeldOnce, Holds, Answered, AnswerSteps
      <4>3. QED
        BY <2>1, <3>2, <4>1, <4>2 DEF Terminal
    <3>5. QED
      BY <3>3, <3>4
  <2>5. QED
    BY <2>1, <2>2, <2>3, <2>4
<1>2. QED
  BY <1>1 DEF OnceInv, Frugal

\* A lane that moves one job drops at most the answer of that job.
LEMMA AnswersStay ==
  ASSUME TypeOK, NEW r \in Runs, NEW j \in Jobs, NEW l,
         lane' = [lane EXCEPT ![r][j] = l]
  PROVE  /\ \A j1 \in Jobs \ {j} : Answered(j1) => Answered(j1)'
         /\ l.at \in AnswerSteps => Answered(j)'
         /\ At(r, j) \notin AnswerSteps /\ Answered(j) => Answered(j)'
BY DEF TypeOK, Answered, At

\* The write after an answer ends the row, or the row has ended already.
LEMMA WriteEnds ==
  ASSUME TypeOK, HeldIsOpen, NEW r \in Runs, NEW j \in Jobs, NEW row \in Row,
         Holds(r, j), row.status \in Terminal, WriteIfLeased(r, j, row)
  PROVE  jobs'[j].status \in Terminal
BY DEF HeldIsOpen, WriteIfLeased, TypeOK

LEMMA MovedIsFrugal ==
  ASSUME TypeOK, NEW r \in Runs, NEW j \in Jobs, NEW l,
         lane' = [lane EXCEPT ![r][j] = l],
         lost \subseteq lost', limbo' \subseteq lost', accepted' = accepted,
         At(r, j) \in AnswerSteps =>
           l.at \in AnswerSteps \/ j \in lost' \/ jobs'[j].status \in Terminal
  PROVE  Frugal
BY AnswersStay DEF Frugal

LEMMA LaneStepIsFrugal ==
  ASSUME TypeOK, HeldIsOpen, OnceInv, NEW r \in Runs, NEW j \in Jobs,
         \/ LaneStep(r, j) \/ FinalWriteThrows(r, j) \/ LaneCallThrows(r, j)
  PROVE  Frugal
<1>1. /\ limbo \subseteq lost /\ lost \subseteq Jobs
      /\ Unlocked(jobs[j], "suppressed", 0) \in Row
      /\ SentRow(jobs[j], lane[r][j].seen) \in Row
      /\ SendTimeout \in Nat
  BY UnlockedType, SentRowType, OutboxAssumption
     DEF OnceInv, TypeOK, Lane, Statuses
<1>2. ASSUME LeaveLane(r, j), UNCHANGED <<accepted, lost, limbo>>,
             At(r, j) \notin AnswerSteps \/ jobs'[j].status \in Terminal
      PROVE  Frugal
  BY <1>1, <1>2, MovedIsFrugal DEF LeaveLane
<1>3. ASSUME NEW step, NEW timer, Moved(r, j, step, timer),
             lost \subseteq lost', limbo' \subseteq lost', accepted' = accepted,
             At(r, j) \in AnswerSteps =>
               step \in AnswerSteps \/ j \in lost' \/ jobs'[j].status \in Terminal
      PROVE  Frugal
  BY <1>3, MovedIsFrugal DEF Moved
<1>4. AtFinalWrite(r, j) => At(r, j) \notin AnswerSteps
  BY DEF AtFinalWrite, CanTake, AnswerSteps
<1>5. CASE ReleaseOrRetry(r, j) \/ FinalWriteThrows(r, j)
  BY <1>2, <1>4, <1>5 DEF ReleaseOrRetry, FinalWriteThrows, settings, history
<1>6. CASE CheckSuppression(r, j)
  <2>1. \/ Moved(r, j, "leaseCheck", lane[r][j].timer)
        \/ Moved(r, j, "suppressing", lane[r][j].timer)
    BY <1>6, Moves DEF CheckSuppression, LaneSteps
  <2>2. At(r, j) \notin AnswerSteps /\ UNCHANGED <<accepted, lost, limbo>>
    BY <1>6 DEF CheckSuppression, CanTake, AnswerSteps, settings, history
  <2>3. QED
    BY <1>1, <1>3, <2>1, <2>2
<1>7. CASE MarkSuppressed(r, j)
  BY <1>2, <1>7 DEF MarkSuppressed, AnswerSteps, settings, history
<1>8. CASE CheckLease(r, j)
  <2>1. At(r, j) \notin AnswerSteps /\ UNCHANGED <<accepted, lost, limbo>>
    BY <1>8 DEF CheckLease, AnswerSteps, settings, history
  <2>2. LeaveLane(r, j) \/ Moved(r, j, "sending", SendTimeout)
    BY <1>1, <1>8, Moves DEF CheckLease, LaneSteps, OnWire
  <2>3. QED
    BY <1>1, <1>2, <1>3, <2>1, <2>2
<1>9. CASE SmtpAccepts(r, j)
  <2>1. Moved(r, j, "delivered", lane[r][j].timer)
    BY <1>9, Moves DEF SmtpAccepts, LaneSteps, OnWire
  <2>2. PICK l : lane' = [lane EXCEPT ![r][j] = l] /\ l.at \in AnswerSteps
    BY <2>1 DEF Moved, AnswerSteps
  <2>3. /\ accepted'[j] = OnceMore(accepted[j]) /\ At(r, j) = "sending"
        /\ \A j1 \in Jobs \ {j} : accepted'[j1] = accepted[j1]
        /\ lost' = lost /\ limbo' = limbo
    BY <1>9 DEF SmtpAccepts, TypeOK, settings
  <2>4. \A j1 \in Jobs : Answered(j1) => Answered(j1)'
    BY <2>2, AnswersStay
  <2>5. Answered(j)'
    BY <2>2, AnswersStay
  <2>6. QED
    BY <1>1, <2>3, <2>4, <2>5 DEF Frugal
<1>10. CASE SmtpAnswers(r, j)
  <2>1. Moved(r, j, "marking", 0) /\ UNCHANGED <<accepted, lost, limbo>>
    BY <1>10, Moves DEF SmtpAnswers, LaneSteps, settings, history
  <2>2. QED
    BY <1>1, <1>3, <2>1 DEF AnswerSteps
<1>11. CASE SmtpFails(r, j)
  <2>1. Moved(r, j, "retry", 0)
    BY <1>11, Moves DEF SmtpFails, LaneSteps
  <2>2. /\ lost \subseteq lost' /\ accepted' = accepted /\ limbo' = limbo
        /\ At(r, j) \in AnswerSteps => j \in lost'
    BY <1>11 DEF SmtpFails, AnswerSteps, OnWire, settings
  <2>3. QED
    BY <1>1, <1>3, <2>1, <2>2
<1>12. CASE SendTimesOut(r, j)
  <2>1. Moved(r, j, "retry", lane[r][j].timer)
    BY <1>12, Moves DEF SendTimesOut, LaneSteps
  <2>2. /\ lost \subseteq lost' /\ accepted' = accepted /\ limbo' \subseteq lost'
        /\ j \in lost'
    BY <1>1, <1>12 DEF SendTimesOut
  <2>3. QED
    BY <1>3, <2>1, <2>2
<1>13. CASE MarkSent(r, j)
  <2>1. Holds(r, j) /\ SentRow(jobs[j], lane[r][j].seen).status \in Terminal
    BY <1>13 DEF MarkSent, Holds, SentRow, Unlocked, Terminal, TypeOK, Row
  <2>2. jobs'[j].status \in Terminal
    BY <1>1, <1>13, <2>1, WriteEnds DEF MarkSent
  <2>3. QED
    BY <1>2, <1>13, <2>2 DEF MarkSent, settings, history
<1>14. CASE LaneCallThrows(r, j)
  <2>1. Moved(r, j, "retry", lane[r][j].timer)
    BY <1>14, Moves DEF LaneCallThrows, LaneSteps
  <2>2. /\ lost \subseteq lost' /\ accepted' = accepted /\ limbo' = limbo
        /\ At(r, j) \in AnswerSteps => At(r, j) = "marking"
    BY <1>14 DEF LaneCallThrows, AnswerSteps, settings, CanTake
  <2>3. ASSUME At(r, j) = "marking"
        PROVE  j \in lost' \/ jobs'[j].status \in Terminal
    <3>1. Holds(r, j) /\ SentRow(jobs[j], lane[r][j].seen).status \in Terminal
      BY <2>3 DEF Holds, SentRow, Unlocked, Terminal, TypeOK, Row
    <3>2. j \in lost' \/ WriteIfLeased(r, j, SentRow(jobs[j], lane[r][j].seen))
      BY <1>14, <2>3 DEF LaneCallThrows
    <3>3. QED
      BY <1>1, <3>1, <3>2, WriteEnds
  <2>4. QED
    BY <1>1, <1>3, <2>1, <2>2, <2>3
<1>15. QED
  BY <1>5, <1>6, <1>7, <1>8, <1>9, <1>10, <1>11, <1>12, <1>13, <1>14 DEF LaneStep

LEMMA BatchStepIsFrugal ==
  ASSUME TypeOK, HeldIsOpen, OnceInv, NEW r \in Runs,
         Claim(r) \/ LoadConfig(r) \/ Finish(r) \/ Crash(r)
  PROVE  Frugal
<1>1. limbo \subseteq lost /\ accepted' = accepted
  BY DEF OnceInv, Claim, LoadConfig, Finish, Crash, history
<1>2. CASE LoadConfig(r)
  BY <1>1, <1>2 DEF LoadConfig, Frugal, Answered, At, settings, history
<1>3. ASSUME lost \subseteq lost', limbo' \subseteq lost',
             \A r1 \in Runs \ {r} : lane'[r1] = lane[r1],
             \A j \in Jobs \ lost' : At(r, j) \notin AnswerSteps
      PROVE  Frugal
  BY <1>1, <1>3 DEF Frugal, Answered, At
<1>4. CASE Claim(r)
  <2>1. \A j \in Jobs : At(r, j) \notin AnswerSteps
    BY <1>4 DEF Claim, HeldIsOpen, Holds, AnswerSteps
  <2>2. \A r1 \in Runs \ {r} : lane'[r1] = lane[r1]
    BY <1>4 DEF Claim, TypeOK
  <2>3. QED
    BY <1>1, <1>3, <1>4, <2>1, <2>2 DEF Claim, settings, history
<1>5. CASE Finish(r)
  <2>1. \A j \in Jobs : At(r, j) \notin AnswerSteps
    BY <1>5 DEF Finish, Working, AnswerSteps
  <2>2. \A r1 \in Runs \ {r} : lane'[r1] = lane[r1]
    BY <1>5 DEF Finish, TypeOK
  <2>3. QED
    BY <1>1, <1>3, <1>5, <2>1, <2>2 DEF Finish, settings, history
<1>6. CASE Crash(r)
  <2>1. lost' = lost \union {j \in Jobs : At(r, j) \in OnWire \union {"marking"}}
    BY <1>6 DEF Crash
  <2>2. limbo' = limbo \union {j \in Jobs : At(r, j) = "sending"}
    BY <1>6 DEF Crash
  <2>3. \A r1 \in Runs \ {r} : lane'[r1] = lane[r1]
    BY <1>6 DEF Crash, TypeOK
  <2>4. QED
    BY <1>1, <1>3, <2>1, <2>2, <2>3 DEF AnswerSteps, OnWire
<1>7. QED
  BY <1>2, <1>4, <1>5, <1>6

LEMMA OtherStepIsFrugal ==
  ASSUME TypeOK, OnceInv,
         \/ \E j \in Jobs : \/ Enqueue(j) \/ Revoke(j) \/ RevokeLate(j) \/ Restore(j)
                            \/ Purge(j) \/ RetryFailed(j) \/ LateOutcome(j)
         \/ Toggle \/ Tick \/ UNCHANGED vars
  PROVE  Frugal
<1>1. limbo \subseteq lost
  BY DEF OnceInv
<1>2. CASE Tick
  BY <1>1, <1>2, TickKeepsRows DEF Tick, Frugal, Answered, settings, history
<1>3. CASE Toggle
  BY <1>1, <1>3 DEF Toggle, Frugal, Answered, At, history
<1>4. CASE UNCHANGED vars
  BY <1>1, <1>4 DEF vars, Frugal, Answered, At
<1>5. ASSUME NEW j \in Jobs, LateOutcome(j)
      PROVE  Frugal
  <2>1. /\ j \in lost /\ lost' = lost /\ limbo' \subseteq limbo /\ lane' = lane
        /\ \A j1 \in Jobs \ {j} : accepted'[j1] = accepted[j1]
    BY <1>1, <1>5 DEF LateOutcome, TypeOK
  <2>2. QED
    BY <1>1, <2>1 DEF Frugal, Answered, At
<1>6. ASSUME NEW j \in Jobs, \/ Enqueue(j) \/ Revoke(j) \/ RevokeLate(j) \/ Restore(j)
                             \/ Purge(j) \/ RetryFailed(j)
      PROVE  Frugal
  <2>1. UNCHANGED <<lane, limbo, accepted, lost>>
    BY <1>6 DEF Enqueue, Revoke, RevokeLate, RevokeLooks, RevokeOvertaken,
         Restore, Purge, RetryFailed, settings, history
  <2>2. QED
    BY <1>1, <2>1 DEF Frugal, Answered, At
<1>7. QED
  BY <1>2, <1>3, <1>4, <1>5, <1>6

LEMMA OnceInvariant == Spec => [](Prompt => OnceInv)
<1>1. Init => OnceInv
  BY DEF Init, OnceInv, At, NoLane
<1>2. ASSUME TypeOK, OutcomeInv, LeaseInv, LeaseInv', Prompt => OnceInv,
             [Next]_vars, Prompt
      PROVE  OnceInv'
  <2>1. HeldIsOpen /\ HeldOnce /\ HeldOnce' /\ OnceInv
    BY <1>2 DEF LeaseInv
  <2>2. Frugal
    BY <1>2, <2>1, LaneStepIsFrugal, BatchStepIsFrugal, OtherStepIsFrugal DEF Next
  <2>3. QED
    BY <1>2, <2>1, <2>2, FrugalKeepsOnce
<1>3. /\ TypeOK /\ OutcomeInv /\ LeaseInv /\ LeaseInv' /\ (Prompt => OnceInv)
      /\ [Next]_vars
      => (Prompt => OnceInv)'
  BY <1>2
<1>4. Init => (Prompt => OnceInv)
  BY <1>1
<1>5. QED
  BY TypeCorrect, OutcomeInvariant, LeaseInvariant, <1>3, <1>4, PTL DEF Spec

\* Prompt batches never duplicate a mail by themselves: SMTP takes a job twice
\* only after a crash, a time-out or an error lost the outcome of an attempt.
THEOREM DuplicatesNeedALoss == Spec => []DuplicateOnlyAfterLostOutcome
<1>1. (Prompt => OnceInv) => DuplicateOnlyAfterLostOutcome
  BY DEF OnceInv, DuplicateOnlyAfterLostOutcome
<1>2. QED
  BY OnceInvariant, <1>1, PTL
=============================================================================
