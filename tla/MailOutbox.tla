----------------------------- MODULE MailOutbox -----------------------------
(***************************************************************************)
(* The PostgreSQL mail outbox (src/src/lib/mail/queue.ts) and the worker   *)
(* batches that drain it (src/src/lib/mail/worker.ts), run by any number   *)
(* of server processes against one table.                                  *)
(*                                                                         *)
(* A member of Jobs is a dedupe key and so at most one row of mail_jobs.   *)
(* A member of Runs is one call of runMailWorkerBatch and its random       *)
(* workerId; an identifier is taken again only when no row names it.       *)
(* Statements of PostgreSQL are atomic steps.  Time is discrete and        *)
(* relative: a row keeps how long it still has to wait and how long it has *)
(* been locked, so the state space is finite although time is unbounded.   *)
(***************************************************************************)
EXTENDS Integers, FiniteSets

CONSTANTS
  Jobs, Runs, NoRun,
  BatchSize,      \* DEFAULT_BATCH_SIZE, the limit of one claim
  MaxBatch,       \* MAX_BATCH_SIZE, the largest limit a caller may ask for
  Concurrency,    \* lanes of runBounded
  SendTimeout,    \* SEND_TIMEOUT_MS
  Margin,         \* the safety margin inside LOCK_TIMEOUT_MS
  Pause,          \* PAUSE_WHEN_DISABLED_MS
  MaxAttempts,    \* MAX_ATTEMPTS
  Delay,          \* delayForAttempt, a function of the attempt number
  Prompt,         \* TRUE: a batch spends at most Margin outside its sends
  MaxFaults,      \* bound on process crashes plus failing database calls
  MaxRetries,     \* bound on retries an administrator asks for
  MaxToggles      \* bound on saves that change mail_settings.enabled

ASSUME OutboxAssumption ==
  /\ IsFiniteSet(Jobs)
  /\ NoRun \notin Runs
  /\ BatchSize \in Nat /\ MaxBatch \in Nat /\ Concurrency \in Nat
  /\ SendTimeout \in Nat /\ Margin \in Nat /\ Pause \in Nat
  /\ MaxAttempts \in Nat \ {0}
  /\ Delay \in [1..MaxAttempts -> Nat]
  /\ Prompt \in BOOLEAN
  /\ MaxFaults \in Nat /\ MaxRetries \in Nat /\ MaxToggles \in Nat

\* clamp() never lets a caller's limit exceed MAX_BATCH_SIZE.
ASSUME BatchAssumption == BatchSize <= MaxBatch

VARIABLES
  jobs,      \* the table mail_jobs
  run,       \* each batch: how far it got, its live lanes, its use of time
  lane,      \* what each batch is doing about each job it claimed
  enabled,   \* mail_settings.enabled
  eligible,  \* what shouldSuppressMailJob would read of each job now
  limbo,     \* jobs with a send nobody awaits any more, not yet decided
  looked,    \* jobs a revocation under way has found failed, or not there
  faults, retries, toggles,  \* bound counters
  accepted,  \* history: acceptances by the SMTP server, 2 for "more"
  revoked,   \* history: jobs that were ever revoked
  lost,      \* history: jobs with an attempt whose outcome was not recorded
  overtaken  \* history: open jobs the last revocation has not found open

vars == <<jobs, run, lane, enabled, eligible, limbo, looked, faults, retries,
          toggles, accepted, revoked, lost, overtaken>>

Statuses == {"absent", "queued", "processing", "sent", "failed",
             "suppressed", "purged"}

\* Somebody holds the lease of a row exactly while it is being processed.
Row == {row \in [status : Statuses, attempts : Nat, wait : Nat, age : Nat,
                 owner : Runs \union {NoRun}] :
          row.status = "processing" <=> row.owner # NoRun}

AbsentRow == [status |-> "absent", attempts |-> 0, wait |-> 0, age |-> 0,
              owner |-> NoRun]

\* Steps of a lane that have a message on the wire under withTimeout, and
\* all steps at which its SMTP outcome has not been written back.
OnWire == {"sending", "delivered"}
LaneSteps == {"none", "pending", "suppressing", "leaseCheck", "marking",
              "retry"} \union OnWire

Lane == [at : LaneSteps, seen : Nat, timer : Nat]
NoLane == [at |-> "none", seen |-> 0, timer |-> 0]

Phases == {"idle", "loading", "retrying", "releasing", "delivering"}
Run == [phase : Phases, lanes : Int, idle : Nat, busy : Nat]
NoBatch == [phase |-> "idle", lanes |-> 0, idle |-> 0, busy |-> 0]

TypeOK ==
  /\ jobs \in [Jobs -> Row]
  /\ run \in [Runs -> Run]
  /\ lane \in [Runs -> [Jobs -> Lane]]
  /\ enabled \in BOOLEAN
  /\ eligible \in [Jobs -> BOOLEAN]
  /\ limbo \subseteq Jobs /\ looked \subseteq Jobs
  /\ faults \in Nat /\ retries \in Nat /\ toggles \in Nat
  /\ accepted \in [Jobs -> 0..2]
  /\ revoked \subseteq Jobs
  /\ lost \subseteq Jobs
  /\ overtaken \subseteq Jobs

Init ==
  /\ jobs = [j \in Jobs |-> AbsentRow]
  /\ run = [r \in Runs |-> NoBatch]
  /\ lane = [r \in Runs |-> [j \in Jobs |-> NoLane]]
  /\ enabled = TRUE
  /\ eligible = [j \in Jobs |-> TRUE]
  /\ limbo = {} /\ looked = {}
  /\ faults = 0 /\ retries = 0 /\ toggles = 0
  /\ accepted = [j \in Jobs |-> 0]
  /\ revoked = {}
  /\ lost = {}
  /\ overtaken = {}

OnceMore(n) == IF n < 2 THEN n + 1 ELSE 2

-----------------------------------------------------------------------------
(* Rows: who holds a lease, and the writes guarded by activeLeaseWhere. *)

\* Fault variants, for checking that the properties notice: a lock timeout
\* without the margin, or of the order of one send.
LockTimeoutWithoutMargin == MaxBatch * SendTimeout
LockTimeoutOfOneSend == SendTimeout

LockTimeout == MaxBatch * SendTimeout + Margin

\* Fault variant: activeLeaseWhere forgets lockedBy.
LeasedByAnyone(r, j) == jobs[j].status = "processing"

Leased(r, j) == jobs[j].status = "processing" /\ jobs[j].owner = r

\* Fault variant: a status is written without clearing lockedBy.
StillLocked(row, status, wait) ==
  [row EXCEPT !.status = status, !.wait = wait, !.age = 0]

Unlocked(row, status, wait) ==
  [row EXCEPT !.status = status, !.wait = wait, !.age = 0, !.owner = NoRun]

\* Fault variant: the write is not guarded by the lease.
WriteAlways(r, j, row) == jobs' = [jobs EXCEPT ![j] = row]

WriteIfLeased(r, j, row) ==
  jobs' = IF Leased(r, j) THEN [jobs EXCEPT ![j] = row] ELSE jobs

\* Fault variant: one attempt too many.
ExhaustedOffByOne(seen) == seen >= MaxAttempts

Exhausted(seen) == seen + 1 >= MaxAttempts

SentRow(row, seen) == [Unlocked(row, "sent", 0) EXCEPT !.attempts = seen + 1]

RetryRow(row, seen) ==
  [Unlocked(row, IF Exhausted(seen) THEN "failed" ELSE "queued",
                 IF Exhausted(seen) THEN 0 ELSE Delay[seen + 1])
     EXCEPT !.attempts = seen + 1]

\* Fault variant: leases of dead batches are never taken back.
NeverStale(j) == FALSE

Stale(j) == jobs[j].status = "processing" /\ jobs[j].age > LockTimeout

Due(j) == jobs[j].status = "queued" /\ jobs[j].wait = 0

\* A row one unit of time later.
Aged(row) ==
  [row EXCEPT !.wait = IF @ > 0 THEN @ - 1 ELSE 0,
              !.age = IF row.status = "processing" /\ @ <= LockTimeout
                      THEN @ + 1 ELSE @]

(* Lanes of runBounded: a job of the batch is pending until a lane takes   *)
(* it; a lane that throws is gone, the others go on.                       *)

At(r, j) == lane[r][j].at
Pending(r) == {j \in Jobs : At(r, j) = "pending"}
Working(r) == {j \in Jobs : At(r, j) \notin {"none", "pending"}}
Sending(r) == {j \in Jobs : At(r, j) \in OnWire}

Goto(r, j, step) == lane' = [lane EXCEPT ![r][j].at = step]
LeaveLane(r, j) == lane' = [lane EXCEPT ![r][j] = NoLane]
LaneThrows(r) == run' = [run EXCEPT ![r].lanes = @ - 1]

CanTake(r, j) ==
  At(r, j) = "pending" /\ Cardinality(Working(r)) < run[r].lanes

Fault == faults < MaxFaults /\ faults' = faults + 1

history == <<accepted, revoked, lost, overtaken>>
settings == <<enabled, eligible, limbo, looked, retries, toggles>>
-----------------------------------------------------------------------------
(* The site around the worker. *)

\* enqueueMail, in the transaction that commits the business change.  A row
\* with the same dedupe key is returned as it is.  The recipient may have been
\* revoked, and mail disabled, since the transaction read them.
Enqueue(j) ==
  /\ jobs' = IF jobs[j].status = "absent"
             THEN [jobs EXCEPT ![j].status = "queued"]
             ELSE jobs
  /\ UNCHANGED <<run, lane, settings, faults, history>>

\* Unsubscribing, withdrawing, unpublishing or deleting: a transaction that
\* changes what shouldSuppressMailJob reads and cancels the open job.  The row
\* it cancels is locked until it commits: one step.
Revoke(j) ==
  /\ eligible' = [eligible EXCEPT ![j] = FALSE]
  /\ revoked' = revoked \union {j}
  /\ overtaken' = overtaken \ {j}
  /\ jobs' = IF jobs[j].status \in {"queued", "processing"}
             THEN [jobs EXCEPT ![j] = Unlocked(@, "suppressed", 0)]
             ELSE jobs
  /\ UNCHANGED <<run, lane, enabled, limbo, looked, faults, retries, toggles,
                 accepted, lost>>

\* A job that it finds failed, or not yet committed, may be open when it
\* commits.
RevokeLooks(j) ==
  /\ jobs[j].status \in {"absent", "failed"}
  /\ looked' = looked \union {j}
  /\ UNCHANGED <<jobs, run, lane, enabled, eligible, limbo, faults, retries,
                 toggles, history>>

RevokeOvertaken(j) ==
  /\ j \in looked
  /\ looked' = looked \ {j}
  /\ eligible' = [eligible EXCEPT ![j] = FALSE]
  /\ revoked' = revoked \union {j}
  /\ overtaken' = IF jobs[j].status \in {"queued", "processing"}
                  THEN overtaken \union {j} ELSE overtaken
  /\ UNCHANGED <<jobs, run, lane, enabled, limbo, faults, retries, toggles,
                 accepted, lost>>

RevokeLate(j) == RevokeLooks(j) \/ RevokeOvertaken(j)

\* Subscribing and confirming again, or publishing again.
Restore(j) ==
  /\ ~eligible[j]
  /\ eligible' = [eligible EXCEPT ![j] = TRUE]
  /\ overtaken' = overtaken \ {j}
  /\ UNCHANGED <<jobs, run, lane, enabled, limbo, looked, faults, retries,
                 toggles, accepted, revoked, lost>>

\* deleteApplication removes the rows of its jobs, whatever their status.
Purge(j) ==
  /\ jobs[j].status \notin {"absent", "purged"}
  /\ jobs' = [jobs EXCEPT ![j] = [AbsentRow EXCEPT !.status = "purged"]]
  /\ UNCHANGED <<run, lane, settings, faults, history>>

\* saveMailSettings with the other value of "enabled".
Toggle ==
  /\ toggles < MaxToggles
  /\ toggles' = toggles + 1
  /\ enabled' = ~enabled
  /\ UNCHANGED <<jobs, run, lane, eligible, limbo, looked, faults, retries,
                 history>>

\* retryMailJob.
RetryFailed(j) ==
  /\ retries < MaxRetries
  /\ jobs[j].status = "failed"
  /\ retries' = retries + 1
  /\ jobs' = [jobs EXCEPT ![j] =
                [Unlocked(@, "queued", 0) EXCEPT !.attempts = 0]]
  /\ UNCHANGED <<run, lane, enabled, eligible, limbo, looked, faults, toggles,
                 history>>
-----------------------------------------------------------------------------
(* A worker batch. *)

\* claimDueMailJobs: one transaction first returns stale leases to the queue,
\* then leases due rows, those among them.  SKIP LOCKED and the limit may
\* leave any of them out.  An empty claim changes nothing.
Claim(r) ==
  /\ run[r].phase = "idle"
  /\ \A j \in Jobs : jobs[j].owner # r
  /\ \E stale \in SUBSET {j \in Jobs : Stale(j)} :
     \E taken \in SUBSET ({j \in Jobs : Due(j)} \union stale) \ {{}} :
       /\ Cardinality(stale) <= BatchSize
       /\ Cardinality(taken) <= BatchSize
       /\ jobs' = [j \in Jobs |->
            IF j \in taken
            THEN [jobs[j] EXCEPT !.status = "processing", !.wait = 0,
                                 !.age = 0, !.owner = r]
            ELSE IF j \in stale THEN Unlocked(jobs[j], "queued", 0)
            ELSE jobs[j]]
       /\ lane' = [lane EXCEPT ![r] = [j \in Jobs |->
            IF j \in taken
            THEN [at |-> "pending", seen |-> jobs[j].attempts, timer |-> 0]
            ELSE NoLane]]
       /\ run' = [run EXCEPT ![r] = [phase |-> "loading",
                     lanes |-> Concurrency, idle |-> 0, busy |-> 0]]
  /\ UNCHANGED <<settings, faults, history>>

\* loadConfig, once for the whole batch: usable settings, disabled, or a
\* throw (no usable credential, or no database).
LoadConfig(r) ==
  /\ run[r].phase = "loading"
  /\ \E next \in {IF enabled THEN "delivering" ELSE "releasing", "retrying"} :
       run' = [run EXCEPT ![r].phase = next]
  /\ UNCHANGED <<jobs, lane, settings, faults, history>>

\* The last write about a job: release while disabled, otherwise markRetry,
\* for every job of an unconfigured batch or in the catch block of a lane.
AtFinalWrite(r, j) ==
  \/ At(r, j) = "retry"
  \/ /\ run[r].phase \in {"retrying", "releasing"}
     /\ CanTake(r, j)

FinalRow(r, j) ==
  IF run[r].phase = "releasing"
  THEN Unlocked(jobs[j], "queued", Pause)
  ELSE RetryRow(jobs[j], lane[r][j].seen)

ReleaseOrRetry(r, j) ==
  /\ AtFinalWrite(r, j)
  /\ WriteIfLeased(r, j, FinalRow(r, j))
  /\ LeaveLane(r, j)
  /\ UNCHANGED <<run, settings, faults, history>>

\* That write throws, applied or not: Promise.all rejects, the lane is gone.
FinalWriteThrows(r, j) ==
  /\ AtFinalWrite(r, j)
  /\ Fault
  /\ UNCHANGED jobs \/ WriteIfLeased(r, j, FinalRow(r, j))
  /\ LeaveLane(r, j)
  /\ LaneThrows(r)
  /\ UNCHANGED <<settings, history>>

\* A lane takes the next job and reads whether it should be suppressed.
CheckSuppression(r, j) ==
  /\ run[r].phase = "delivering"
  /\ CanTake(r, j)
  /\ Goto(r, j, IF eligible[j] THEN "leaseCheck" ELSE "suppressing")
  /\ UNCHANGED <<jobs, run, settings, faults, history>>

MarkSuppressed(r, j) ==
  /\ At(r, j) = "suppressing"
  /\ WriteIfLeased(r, j, Unlocked(jobs[j], "suppressed", 0))
  /\ LeaveLane(r, j)
  /\ UNCHANGED <<run, settings, faults, history>>

\* Fault variant: the lease is not read again before the send.
SendUnchecked(r, j) ==
  /\ At(r, j) = "leaseCheck"
  /\ lane' = [lane EXCEPT ![r][j].at = "sending",
                          ![r][j].timer = SendTimeout]
  /\ UNCHANGED <<jobs, run, settings, faults, history>>

\* isLeaseActive, and the send that follows it without another await.
CheckLease(r, j) ==
  /\ At(r, j) = "leaseCheck"
  /\ IF Leased(r, j)
     THEN lane' = [lane EXCEPT ![r][j].at = "sending",
                               ![r][j].timer = SendTimeout]
     ELSE LeaveLane(r, j)
  /\ UNCHANGED <<jobs, run, settings, faults, history>>

\* The SMTP server takes the message; the batch does not know yet.
SmtpAccepts(r, j) ==
  /\ At(r, j) = "sending"
  /\ Goto(r, j, "delivered")
  /\ accepted' = [accepted EXCEPT ![j] = OnceMore(@)]
  /\ UNCHANGED <<jobs, run, settings, faults, revoked, lost, overtaken>>

\* sendMail resolves.
SmtpAnswers(r, j) ==
  /\ At(r, j) = "delivered"
  /\ lane' = [lane EXCEPT ![r][j].at = "marking", ![r][j].timer = 0]
  /\ UNCHANGED <<jobs, run, settings, faults, history>>

\* sendMail rejects, whether or not the server had taken the message.
SmtpFails(r, j) ==
  /\ At(r, j) \in OnWire
  /\ lane' = [lane EXCEPT ![r][j].at = "retry", ![r][j].timer = 0]
  /\ lost' = IF At(r, j) = "delivered" THEN lost \union {j} ELSE lost
  /\ UNCHANGED <<jobs, run, settings, faults, accepted, revoked, overtaken>>

\* withTimeout gives up; it does not stop the send.
SendTimesOut(r, j) ==
  /\ At(r, j) \in OnWire
  /\ lane[r][j].timer = 0
  /\ Goto(r, j, "retry")
  /\ limbo' = IF At(r, j) = "sending" THEN limbo \union {j} ELSE limbo
  /\ lost' = lost \union {j}
  /\ UNCHANGED <<jobs, run, enabled, eligible, looked, faults, retries,
                 toggles, accepted, revoked, overtaken>>

MarkSent(r, j) ==
  /\ At(r, j) = "marking"
  /\ WriteIfLeased(r, j, SentRow(jobs[j], lane[r][j].seen))
  /\ LeaveLane(r, j)
  /\ UNCHANGED <<run, settings, faults, history>>

\* Any database call inside the try block throws: the catch block retries.
\* A write may have been applied although its answer was lost.
LaneCallThrows(r, j) ==
  /\ \/ At(r, j) \in {"leaseCheck", "suppressing", "marking"}
     \/ run[r].phase = "delivering" /\ CanTake(r, j)
  /\ Fault
  /\ \/ /\ UNCHANGED jobs
        /\ lost' = IF At(r, j) = "marking" THEN lost \union {j} ELSE lost
     \/ /\ At(r, j) = "suppressing"
        /\ WriteIfLeased(r, j, Unlocked(jobs[j], "suppressed", 0))
        /\ UNCHANGED lost
     \/ /\ At(r, j) = "marking"
        /\ WriteIfLeased(r, j, SentRow(jobs[j], lane[r][j].seen))
        /\ UNCHANGED lost
  /\ Goto(r, j, "retry")
  /\ UNCHANGED <<run, settings, accepted, revoked, overtaken>>

\* The batch returns, or rejected with nobody left to take pending jobs.
Finish(r) ==
  /\ run[r].phase \in {"retrying", "releasing", "delivering"}
  /\ Working(r) = {}
  /\ Pending(r) = {} \/ run[r].lanes = 0
  /\ run' = [run EXCEPT ![r] = NoBatch]
  /\ lane' = [lane EXCEPT ![r] = [j \in Jobs |-> NoLane]]
  /\ UNCHANGED <<jobs, settings, faults, history>>

-----------------------------------------------------------------------------
(* The environment of a batch. *)

\* The server process dies.  Messages on the wire may still be taken.
Crash(r) ==
  /\ run[r].phase # "idle"
  /\ Fault
  /\ run' = [run EXCEPT ![r] = NoBatch]
  /\ lane' = [lane EXCEPT ![r] = [j \in Jobs |-> NoLane]]
  /\ limbo' = limbo \union {j \in Jobs : At(r, j) = "sending"}
  /\ lost' = lost \union {j \in Jobs : At(r, j) \in OnWire \union {"marking"}}
  /\ UNCHANGED <<jobs, enabled, eligible, looked, retries, toggles, accepted,
                 revoked, overtaken>>

LateOutcome(j) ==
  /\ j \in limbo
  /\ limbo' = limbo \ {j}
  /\ \/ accepted' = [accepted EXCEPT ![j] = OnceMore(@)]
     \/ UNCHANGED accepted
  /\ UNCHANGED <<jobs, run, lane, enabled, eligible, looked, faults, retries,
                 toggles, revoked, lost, overtaken>>

\* One unit of time.  A send timer that is due fires first.  A batch that is
\* prompt spends no more than Margin without a message on the wire.
Tick ==
  /\ \A r \in Runs : \A j \in Sending(r) : lane[r][j].timer > 0
  /\ Prompt => \A r \in Runs :
       run[r].phase # "idle" /\ Sending(r) = {} => run[r].idle < Margin
  /\ jobs' = [j \in Jobs |-> Aged(jobs[j])]
  /\ lane' = [r \in Runs |-> [j \in Jobs |->
       [lane[r][j] EXCEPT !.timer = IF At(r, j) \in OnWire THEN @ - 1 ELSE @]]]
  /\ run' = [r \in Runs |->
       IF run[r].phase = "idle" \/ ~Prompt THEN run[r]
       ELSE IF Sending(r) = {} THEN [run[r] EXCEPT !.idle = @ + 1]
       ELSE [run[r] EXCEPT !.busy = @ + 1]]
  /\ UNCHANGED <<settings, faults, history>>

LaneStep(r, j) ==
  \/ ReleaseOrRetry(r, j) \/ CheckSuppression(r, j) \/ MarkSuppressed(r, j)
  \/ CheckLease(r, j) \/ SmtpAccepts(r, j) \/ SmtpAnswers(r, j)
  \/ SmtpFails(r, j) \/ SendTimesOut(r, j) \/ MarkSent(r, j)

Next ==
  \/ \E j \in Jobs : \/ Enqueue(j) \/ Revoke(j) \/ RevokeLate(j) \/ Restore(j)
                     \/ Purge(j) \/ RetryFailed(j) \/ LateOutcome(j)
  \/ Toggle
  \/ \E r \in Runs : Claim(r) \/ LoadConfig(r) \/ Finish(r) \/ Crash(r)
  \/ \E r \in Runs, j \in Jobs : \/ LaneStep(r, j)
                                \/ FinalWriteThrows(r, j)
                                \/ LaneCallThrows(r, j)
  \/ Tick

Spec == Init /\ [][Next]_vars

\* Servers keep running: the interval timer starts batches, a batch goes on,
\* time passes.  What users, administrators and faults do is never fair.
Fairness ==
  /\ WF_vars(\E r \in Runs : Claim(r))
  /\ \A r \in Runs : WF_vars(LoadConfig(r)) /\ WF_vars(Finish(r))
  /\ \A r \in Runs, j \in Jobs : WF_vars(LaneStep(r, j))
  /\ WF_vars(Tick)

FairSpec == Spec /\ Fairness
-----------------------------------------------------------------------------
(* Properties. *)

\* A batch has unfinished business with a job it claimed.
Holds(r, j) == At(r, j) # "none"

\* LOCK_TIMEOUT outlives the worst permitted batch (worker.ts:22-24): while a
\* prompt batch still holds a job, no other batch may reclaim its lease.
LiveLeaseNeverStale ==
  Prompt => \A r \in Runs, j \in Jobs : Holds(r, j) /\ Leased(r, j) => ~Stale(j)

\* SKIP LOCKED and the leases let several instances run workers without
\* double-sending a row (worker.ts:175-176): two prompt batches never have the
\* same job in hand, even one whose row was revoked or purged meanwhile.
NoDoubleSend ==
  Prompt => \A r1, r2 \in Runs, j \in Jobs :
              Holds(r1, j) /\ Holds(r2, j) => r1 = r2

\* The attempt number a lane computed from its copy of the row is the row's
\* own as long as the lease lasts, however long the send took and whatever an
\* administrator retried (worker.ts:253, 268, 442, 497).
SnapshotFresh ==
  \A r \in Runs, j \in Jobs :
    Holds(r, j) /\ Leased(r, j) => lane[r][j].seen = jobs[j].attempts

\* No committed job disappears silently (docs/SMTP配置.md:52): every terminal
\* status has its cause, and attempts never pass MAX_ATTEMPTS.
OutcomeJustified ==
  \A j \in Jobs :
    /\ jobs[j].status = "sent" => accepted[j] > 0
    /\ jobs[j].status = "failed" => jobs[j].attempts = MaxAttempts
    /\ jobs[j].status = "suppressed" => j \in revoked
    /\ jobs[j].status \in {"queued", "processing"}
         => jobs[j].attempts < MaxAttempts

\* SMTP takes a job twice only if the outcome of one of its attempts could not
\* be recorded: a crash, a timeout, a broken connection or a failed markSent
\* (docs/SMTP配置.md:52).
DuplicateOnlyAfterLostOutcome ==
  Prompt => \A j \in Jobs : accepted[j] = 2 => j \in lost

\* No send is begun for somebody who is revoked at that moment: the reads of
\* shouldSuppressMailJob may be outdated when the lease is read, but then the
\* revocation has taken the lease away (worker.ts:478-483), unless the job was
\* queued while the revocation was under way.
SendStartsEligible ==
  [][\A r \in Runs, j \in Jobs :
       At(r, j) # "sending" /\ At(r, j)' = "sending"
         => eligible[j] \/ j \in overtaken]_vars

\* docs/SMTP配置.md:54, without that exception: whoever has unsubscribed, and
\* whatever was withdrawn, is sent no mail any more.
RevokedGetsNoMail ==
  [][\A r \in Runs, j \in Jobs :
       At(r, j) # "sending" /\ At(r, j)' = "sending" => eligible[j]]_vars

\* What a row records about its job, whoever works on it.
FateOf(row) ==
  IF row.status \in {"queued", "processing"} THEN "pending" ELSE row.status

Fate == [j \in Jobs |-> FateOf(jobs[j])]

\* The table implements the promise made about each job.
Contract == INSTANCE OutboxContract WITH fate <- Fate

ImplementsContract == Contract!ContractSpec

\* While mail stays enabled and faults are finitely many, every committed job
\* is settled: a crashed batch's lease goes stale and is taken over, and
\* every failure uses up one of MAX_ATTEMPTS attempts.
CommittedIsSettled ==
  \A j \in Jobs :
    (<>[]enabled) => (jobs[j].status \in {"queued", "processing"}
                        ~> jobs[j].status \notin {"queued", "processing"})

\* docs/SMTP配置.md:27: once mail is disabled, existing jobs pause and nothing
\* is sent.
DisabledSendsNothing ==
  [][\A r \in Runs, j \in Jobs :
       At(r, j) # "sending" /\ At(r, j)' = "sending" => enabled]_vars
=============================================================================
