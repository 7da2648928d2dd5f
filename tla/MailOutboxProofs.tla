-------------------------- MODULE MailOutboxProofs --------------------------
(***************************************************************************)
(* Theorems about MailOutbox, for every number of jobs, of batches, of     *)
(* lanes, and every value of the time-outs.                                *)
(***************************************************************************)
EXTENDS MailOutbox, FiniteSetTheorems, TLAPS

-----------------------------------------------------------------------------
(* Types. *)

\* What the row writes of the worker store return is a row.
LEMMA UnlockedType ==
  ASSUME NEW row \in Row, NEW status \in Statuses \ {"processing"}, NEW wait \in Nat
  PROVE  Unlocked(row, status, wait) \in Row
BY DEF Unlocked, Row

LEMMA AgedType ==
  ASSUME NEW row \in Row
  PROVE  Aged(row) \in Row
<1>1. row.wait \in Nat /\ row.age \in Nat
  BY DEF Row
<1>2. (IF row.wait > 0 THEN row.wait - 1 ELSE 0) \in Nat
  BY <1>1
<1>3. (IF row.status = "processing" /\ row.age <= LockTimeout
       THEN row.age + 1 ELSE row.age) \in Nat
  BY <1>1
<1> DEFINE w == IF row.wait > 0 THEN row.wait - 1 ELSE 0
           a == IF row.status = "processing" /\ row.age <= LockTimeout
                THEN row.age + 1 ELSE row.age
<1>4. Aged(row) = [row EXCEPT !.wait = w, !.age = a]
  BY DEF Aged
<1>5. w \in Nat /\ a \in Nat
  BY <1>2, <1>3
<1> HIDE DEF w, a
<1>6. QED
  BY <1>4, <1>5 DEF Row

LEMMA SentRowType ==
  ASSUME NEW row \in Row, NEW seen \in Nat
  PROVE  SentRow(row, seen) \in Row
<1>1. Unlocked(row, "sent", 0) \in Row
  BY UnlockedType DEF Statuses
<1>2. QED
  BY <1>1 DEF SentRow, Row

LEMMA RetryRowType ==
  ASSUME NEW row \in Row, NEW seen \in Nat
  PROVE  RetryRow(row, seen) \in Row
<1>1. CASE Exhausted(seen)
  <2>1. Unlocked(row, "failed", 0) \in Row
    BY UnlockedType DEF Statuses
  <2>2. QED
    BY <1>1, <2>1 DEF RetryRow, Row
<1>2. CASE ~Exhausted(seen)
  <2>1. Delay[seen + 1] \in Nat
    BY <1>2, OutboxAssumption DEF Exhausted
  <2>2. Unlocked(row, "queued", Delay[seen + 1]) \in Row
    BY <2>1, UnlockedType DEF Statuses
  <2>3. QED
    BY <1>2, <2>2 DEF RetryRow, Row
<1>3. QED
  BY <1>1, <1>2

LEMMA FinalRowType ==
  ASSUME TypeOK, NEW r \in Runs, NEW j \in Jobs
  PROVE  FinalRow(r, j) \in Row
<1>1. jobs[j] \in Row /\ lane[r][j].seen \in Nat
  BY DEF TypeOK, Lane
<1>2. Unlocked(jobs[j], "queued", Pause) \in Row
  BY <1>1, UnlockedType, OutboxAssumption DEF Statuses
<1>3. RetryRow(jobs[j], lane[r][j].seen) \in Row
  BY <1>1, RetryRowType
<1>4. QED
  BY <1>2, <1>3 DEF FinalRow

\* Writing a row, leaving a lane or going to another step keeps the types.
LEMMA WriteType ==
  ASSUME TypeOK, NEW r \in Runs, NEW j \in Jobs, NEW row \in Row,
         WriteIfLeased(r, j, row)
  PROVE  jobs' \in [Jobs -> Row]
BY DEF TypeOK, WriteIfLeased

LEMMA LaneType ==
  ASSUME TypeOK, NEW r \in Runs, NEW j \in Jobs
  PROVE  /\ NoLane \in Lane
         /\ LeaveLane(r, j) => lane' \in [Runs -> [Jobs -> Lane]]
         /\ \A step \in LaneSteps :
              Goto(r, j, step) => lane' \in [Runs -> [Jobs -> Lane]]
         /\ \A step \in LaneSteps, timer \in Nat :
              lane' = [lane EXCEPT ![r][j].at = step, ![r][j].timer = timer]
                => lane' \in [Runs -> [Jobs -> Lane]]
<1>1. NoLane \in Lane
  BY DEF NoLane, Lane, LaneSteps, OnWire
<1>2. lane \in [Runs -> [Jobs -> Lane]]
  BY DEF TypeOK
<1>3. ASSUME NEW l \in Lane, lane' = [lane EXCEPT ![r][j] = l]
      PROVE  lane' \in [Runs -> [Jobs -> Lane]]
  BY <1>2, <1>3
<1>4. lane[r][j] \in Lane
  BY <1>2
<1>5. LeaveLane(r, j) => lane' \in [Runs -> [Jobs -> Lane]]
  BY <1>1, <1>3 DEF LeaveLane
<1>6. ASSUME NEW step \in LaneSteps, Goto(r, j, step)
      PROVE  lane' \in [Runs -> [Jobs -> Lane]]
  <2>1. [lane[r][j] EXCEPT !.at = step] \in Lane
    BY <1>4 DEF Lane
  <2>2. lane' = [lane EXCEPT ![r][j] = [lane[r][j] EXCEPT !.at = step]]
    BY <1>2, <1>6 DEF Goto
  <2>3. QED
    BY <2>1, <2>2, <1>3
<1>7. ASSUME NEW step \in LaneSteps, NEW timer \in Nat,
             lane' = [lane EXCEPT ![r][j].at = step, ![r][j].timer = timer]
      PROVE  lane' \in [Runs -> [Jobs -> Lane]]
  <2>1. [lane[r][j] EXCEPT !.at = step, !.timer = timer] \in Lane
    BY <1>4 DEF Lane
  <2>2. lane' = [lane EXCEPT ![r][j] =
                   [lane[r][j] EXCEPT !.at = step, !.timer = timer]]
    BY <1>2, <1>7
  <2>3. QED
    BY <2>1, <2>2, <1>3
<1>8. QED
  BY <1>1, <1>5, <1>6, <1>7

\* A lane step may change rows, lanes and histories; batches stay as they are.
LEMMA LaneStepType ==
  ASSUME TypeOK, NEW r \in Runs, NEW j \in Jobs, LaneStep(r, j)
  PROVE  TypeOK'
<1> USE DEF settings, history
<1>1. /\ jobs[j] \in Row
      /\ lane[r][j].seen \in Nat
      /\ NoLane \in Lane
  BY LaneType DEF TypeOK, Lane
<1>2. CASE ReleaseOrRetry(r, j)
  BY <1>2, FinalRowType, WriteType, LaneType DEF ReleaseOrRetry, TypeOK
<1>3. CASE CheckSuppression(r, j)
  <2>1. lane' \in [Runs -> [Jobs -> Lane]]
    BY <1>3, LaneType DEF CheckSuppression, LaneSteps
  <2>2. QED
    BY <1>3, <2>1 DEF CheckSuppression, TypeOK
<1>4. CASE MarkSuppressed(r, j)
  <2>1. Unlocked(jobs[j], "suppressed", 0) \in Row
    BY <1>1, UnlockedType DEF Statuses
  <2>2. QED
    BY <1>4, <2>1, WriteType, LaneType DEF MarkSuppressed, TypeOK
<1>5. CASE CheckLease(r, j)
  <2>1. lane' \in [Runs -> [Jobs -> Lane]]
    BY <1>5, LaneType, OutboxAssumption DEF CheckLease, LaneSteps, OnWire
  <2>2. QED
    BY <1>5, <2>1 DEF CheckLease, TypeOK
<1>6. CASE SmtpAccepts(r, j)
  <2>1. lane' \in [Runs -> [Jobs -> Lane]]
    BY <1>6, LaneType DEF SmtpAccepts, LaneSteps, OnWire
  <2>2. QED
    BY <1>6, <2>1 DEF SmtpAccepts, OnceMore, TypeOK
<1>7. CASE SmtpAnswers(r, j)
  <2>1. lane' \in [Runs -> [Jobs -> Lane]]
    BY <1>7, LaneType DEF SmtpAnswers, LaneSteps
  <2>2. QED
    BY <1>7, <2>1 DEF SmtpAnswers, TypeOK
<1>8. CASE SmtpFails(r, j)
  <2>1. lane' \in [Runs -> [Jobs -> Lane]]
    BY <1>8, LaneType DEF SmtpFails, LaneSteps
  <2>2. QED
    BY <1>8, <2>1 DEF SmtpFails, TypeOK
<1>9. CASE SendTimesOut(r, j)
  <2>1. lane' \in [Runs -> [Jobs -> Lane]]
    BY <1>9, LaneType DEF SendTimesOut, LaneSteps
  <2>2. QED
    BY <1>9, <2>1 DEF SendTimesOut, TypeOK
<1>10. CASE MarkSent(r, j)
  <2>1. SentRow(jobs[j], lane[r][j].seen) \in Row
    BY <1>1, SentRowType
  <2>2. QED
    BY <1>10, <2>1, WriteType, LaneType DEF MarkSent, TypeOK
<1>11. QED
  BY <1>2, <1>3, <1>4, <1>5, <1>6, <1>7, <1>8, <1>9, <1>10 DEF LaneStep

\* The steps in which the database fails a lane.
LEMMA ThrowType ==
  ASSUME TypeOK, NEW r \in Runs, NEW j \in Jobs,
         FinalWriteThrows(r, j) \/ LaneCallThrows(r, j)
  PROVE  TypeOK'
<1> USE DEF settings, history
<1>1. jobs[j] \in Row /\ lane[r][j].seen \in Nat
  BY DEF TypeOK, Lane
<1>2. Unlocked(jobs[j], "suppressed", 0) \in Row
  BY <1>1, UnlockedType DEF Statuses
<1>3. SentRow(jobs[j], lane[r][j].seen) \in Row
  BY <1>1, SentRowType
<1>4. CASE FinalWriteThrows(r, j)
  <2>1. jobs' \in [Jobs -> Row]
    BY <1>4, FinalRowType, WriteType DEF FinalWriteThrows, TypeOK
  <2>2. lane' \in [Runs -> [Jobs -> Lane]]
    BY <1>4, LaneType DEF FinalWriteThrows
  <2>3. run' \in [Runs -> Run]
    BY <1>4 DEF FinalWriteThrows, LaneThrows, TypeOK, Run
  <2>4. QED
    BY <1>4, <2>1, <2>2, <2>3 DEF FinalWriteThrows, Fault, TypeOK
<1>5. CASE LaneCallThrows(r, j)
  <2>1. jobs' \in [Jobs -> Row]
    BY <1>5, <1>2, <1>3, WriteType DEF LaneCallThrows, TypeOK
  <2>2. lane' \in [Runs -> [Jobs -> Lane]]
    BY <1>5, LaneType DEF LaneCallThrows, LaneSteps
  <2>3. lost' \subseteq Jobs
    BY <1>5 DEF LaneCallThrows, TypeOK
  <2>4. QED
    BY <1>5, <2>1, <2>2, <2>3, OutboxAssumption DEF LaneCallThrows, Fault, TypeOK
<1>6. QED
  BY <1>4, <1>5

LEMMA ClaimType ==
  ASSUME TypeOK, NEW r \in Runs, Claim(r)
  PROVE  TypeOK'
<1>1. PICK stale \in SUBSET Jobs, taken \in SUBSET Jobs :
        /\ jobs' = [j \in Jobs |->
             IF j \in taken
             THEN [jobs[j] EXCEPT !.status = "processing", !.wait = 0,
                                  !.age = 0, !.owner = r]
             ELSE IF j \in stale THEN Unlocked(jobs[j], "queued", 0)
             ELSE jobs[j]]
        /\ lane' = [lane EXCEPT ![r] = [j \in Jobs |->
             IF j \in taken
             THEN [at |-> "pending", seen |-> jobs[j].attempts, timer |-> 0]
             ELSE NoLane]]
        /\ run' = [run EXCEPT ![r] = [phase |-> "loading",
                      lanes |-> Concurrency, idle |-> 0, busy |-> 0]]
  BY DEF Claim
<1>2. jobs' \in [Jobs -> Row]
  <2>1. SUFFICES ASSUME NEW j \in Jobs PROVE jobs'[j] \in Row
    BY <1>1
  <2>2. jobs[j] \in Row
    BY DEF TypeOK
  <2>3. [jobs[j] EXCEPT !.status = "processing", !.wait = 0, !.age = 0,
                        !.owner = r] \in Row
    BY <2>2, OutboxAssumption DEF Row, Statuses
  <2>4. Unlocked(jobs[j], "queued", 0) \in Row
    BY <2>2, UnlockedType DEF Statuses
  <2>5. QED
    BY <1>1, <2>2, <2>3, <2>4
<1>3. lane' \in [Runs -> [Jobs -> Lane]]
  <2>1. ASSUME NEW j \in Jobs
        PROVE  /\ [at |-> "pending", seen |-> jobs[j].attempts, timer |-> 0] \in Lane
               /\ NoLane \in Lane
    BY LaneType DEF TypeOK, Row, Lane, LaneSteps, NoLane, OnWire
  <2>2. QED
    BY <1>1, <2>1 DEF TypeOK
<1>4. run' \in [Runs -> Run]
  <2>1. [phase |-> "loading", lanes |-> Concurrency, idle |-> 0, busy |-> 0]
          \in Run
    BY OutboxAssumption DEF Run, Phases
  <2>2. QED
    BY <1>1, <2>1 DEF TypeOK
<1>5. QED
  BY <1>2, <1>3, <1>4 DEF Claim, TypeOK, settings, history

LEMMA BatchStepType ==
  ASSUME TypeOK, NEW r \in Runs, LoadConfig(r) \/ Finish(r) \/ Crash(r)
  PROVE  TypeOK'
<1> USE DEF settings, history
<1>1. NoBatch \in Run /\ NoLane \in Lane
  BY DEF NoBatch, Run, Phases, NoLane, Lane, LaneSteps
<1>2. CASE LoadConfig(r)
  <2>1. run' \in [Runs -> Run]
    BY <1>2 DEF LoadConfig, TypeOK, Run, Phases
  <2>2. QED
    BY <1>2, <2>1 DEF LoadConfig, TypeOK
<1>3. CASE Finish(r)
  BY <1>1, <1>3 DEF Finish, TypeOK
<1>4. CASE Crash(r)
  BY <1>1, <1>4, OutboxAssumption DEF Crash, Fault, TypeOK
<1>5. QED
  BY <1>2, <1>3, <1>4

LEMMA SiteStepType ==
  ASSUME TypeOK, NEW j \in Jobs,
         \/ Enqueue(j) \/ Revoke(j) \/ RevokeLate(j) \/ Restore(j)
         \/ Purge(j) \/ RetryFailed(j) \/ LateOutcome(j)
  PROVE  TypeOK'
<1> USE DEF settings, history
<1>1. jobs[j] \in Row
  BY DEF TypeOK
<1>2. CASE Enqueue(j)
  <2>1. CASE jobs[j].status = "absent"
    <3>1. [jobs[j] EXCEPT !.status = "queued"] \in Row
      BY <1>1, <2>1 DEF Row, Statuses
    <3>2. QED
      BY <1>2, <2>1, <3>1 DEF Enqueue, TypeOK
  <2>2. CASE jobs[j].status # "absent"
    BY <1>2, <2>2 DEF Enqueue, TypeOK
  <2>3. QED
    BY <2>1, <2>2
<1>3. CASE Revoke(j)
  <2>1. Unlocked(jobs[j], "suppressed", 0) \in Row
    BY <1>1, UnlockedType DEF Statuses
  <2>2. QED
    BY <1>3, <2>1 DEF Revoke, TypeOK
<1>4. CASE Restore(j)
  BY <1>4 DEF Restore, TypeOK
<1>9. CASE RevokeLate(j)
  BY <1>9 DEF RevokeLate, RevokeLooks, RevokeOvertaken, TypeOK
<1>5. CASE Purge(j)
  <2>1. [AbsentRow EXCEPT !.status = "purged"] \in Row
    BY DEF AbsentRow, Row, Statuses
  <2>2. QED
    BY <1>5, <2>1 DEF Purge, TypeOK
<1>6. CASE RetryFailed(j)
  <2>1. [Unlocked(jobs[j], "queued", 0) EXCEPT !.attempts = 0] \in Row
    BY <1>1, UnlockedType DEF Statuses, Row
  <2>2. QED
    BY <1>6, <2>1, OutboxAssumption DEF RetryFailed, TypeOK
<1>7. CASE LateOutcome(j)
  BY <1>7 DEF LateOutcome, OnceMore, TypeOK
<1>8. QED
  BY <1>2, <1>3, <1>4, <1>5, <1>6, <1>7, <1>9

LEMMA ToggleType ==
  ASSUME TypeOK, Toggle
  PROVE  TypeOK'
BY OutboxAssumption DEF Toggle, TypeOK, history

LEMMA TickType ==
  ASSUME TypeOK, Tick
  PROVE  TypeOK'
<1>1. jobs' \in [Jobs -> Row]
  BY AgedType DEF Tick, TypeOK
<1>2. lane' \in [Runs -> [Jobs -> Lane]]
  <2>1. SUFFICES ASSUME NEW r \in Runs, NEW j \in Jobs
                 PROVE  lane'[r][j] \in Lane
    BY DEF Tick
  <2>2. lane[r][j] \in Lane
    BY DEF TypeOK
  <2>3. CASE At(r, j) \in OnWire
    <3>1. lane[r][j].timer > 0
      BY <2>3 DEF Tick, Sending
    <3>2. lane[r][j].timer - 1 \in Nat
      BY <2>2, <3>1 DEF Lane
    <3>3. lane'[r][j] = [lane[r][j] EXCEPT !.timer = lane[r][j].timer - 1]
      BY <2>3 DEF Tick
    <3>4. QED
      BY <2>2, <3>2, <3>3 DEF Lane
  <2>4. CASE At(r, j) \notin OnWire
    <3>1. lane'[r][j] = [lane[r][j] EXCEPT !.timer = lane[r][j].timer]
      BY <2>4 DEF Tick
    <3>2. QED
      BY <2>2, <3>1 DEF Lane
  <2>5. QED
    BY <2>3, <2>4
<1>3. run' \in [Runs -> Run]
  <2>1. SUFFICES ASSUME NEW r \in Runs PROVE run'[r] \in Run
    BY DEF Tick
  <2>2. run[r] \in Run
    BY DEF TypeOK
  <2>3. /\ [run[r] EXCEPT !.idle = @ + 1] \in Run
        /\ [run[r] EXCEPT !.busy = @ + 1] \in Run
    BY <2>2 DEF Run
  <2>4. QED
    BY <2>2, <2>3 DEF Tick
<1>4. QED
  BY <1>1, <1>2, <1>3 DEF Tick, TypeOK, settings, history

LEMMA InitType == Init => TypeOK
<1>1. AbsentRow \in Row /\ NoBatch \in Run /\ NoLane \in Lane
  BY DEF AbsentRow, Row, Statuses, NoBatch, Run, Phases, NoLane, Lane, LaneSteps
<1>2. QED
  BY <1>1 DEF Init, TypeOK

\* The tables, batches and histories keep their types: no step computes a
\* negative wait, a lane step or a status that does not exist.
THEOREM TypeCorrect == Spec => []TypeOK
<1>1. ASSUME TypeOK, Next PROVE TypeOK'
  BY <1>1, LaneStepType, ThrowType, ClaimType, BatchStepType, SiteStepType,
     ToggleType, TickType DEF Next
<1>2. TypeOK /\ UNCHANGED vars => TypeOK'
  BY DEF vars, TypeOK
<1>3. QED
  BY InitType, <1>1, <1>2, PTL DEF Spec
-----------------------------------------------------------------------------
(* The lease.  The argument behind LOCK_TIMEOUT: a batch of n jobs that has  *)
(* still u of them to send has spent at most n - u sends' worth of time with *)
(* a message on the wire, and at most Margin otherwise; the lease is no      *)
(* older than that; so it is not stale, and nobody else takes the job over.  *)

Terminal == {"sent", "suppressed", "purged"}
UnsentSteps == {"pending", "leaseCheck"}
Unsent(r) == {j \in Jobs : At(r, j) \in UnsentSteps}
Budget(r) == (BatchSize - Cardinality(Unsent(r))) * SendTimeout

\* A job in hand is leased by its batch, or nobody will ever lease it again.
HeldIsOpen ==
  \A r \in Runs, j \in Jobs :
    Holds(r, j) => /\ run[r].phase # "idle"
                   /\ Leased(r, j) \/ jobs[j].status \in Terminal

HeldOnce ==
  \A r1, r2 \in Runs, j \in Jobs :
    Holds(r1, j) /\ Holds(r2, j) => r1 = r2

TimeSpent ==
  \A r \in Runs : run[r].phase # "idle" =>
    /\ Cardinality(Unsent(r)) <= BatchSize
    /\ run[r].idle <= Margin
    /\ run[r].busy <= Budget(r)
    /\ \A j \in Sending(r) : run[r].busy + lane[r][j].timer <= Budget(r)

LeaseAge ==
  \A r \in Runs, j \in Jobs :
    Holds(r, j) /\ Leased(r, j) => jobs[j].age <= run[r].idle + run[r].busy

LeaseInv == Prompt => HeldIsOpen /\ HeldOnce /\ TimeSpent /\ LeaseAge

\* The arithmetic of a budget in units of one send.
LEMMA Products ==
  /\ \A a, b \in Int, c \in Nat : a <= b => a * c <= b * c
  /\ \A a \in Int, c \in Nat : (a + 1) * c = a * c + c
<1>1. ASSUME NEW a \in Int, NEW b \in Int, NEW c \in Nat, a <= b
      PROVE  a * c <= b * c
  <2>1. b - a \in Nat
    BY <1>1
  <2>2. (b - a) * c \in Nat
    BY <2>1
  <2>3. (b - a) * c = b * c - a * c
    OBVIOUS
  <2>4. QED
    BY <2>2, <2>3
<1>2. QED
  BY <1>1

LEMMA BudgetType ==
  ASSUME NEW r \in Runs
  PROVE  /\ IsFiniteSet(Unsent(r))
         /\ Cardinality(Unsent(r)) \in Nat
         /\ Budget(r) \in Int
         /\ Budget(r) <= BatchSize * SendTimeout
<1>1. IsFiniteSet(Unsent(r))
  BY OutboxAssumption, FS_Subset, Unsent(r) \subseteq Jobs DEF Unsent
<1>2. Cardinality(Unsent(r)) \in Nat
  BY <1>1, FS_CardinalityType
<1>3. BatchSize - Cardinality(Unsent(r)) <= BatchSize
  BY <1>2, OutboxAssumption
<1>4. QED
  BY <1>1, <1>2, <1>3, Products, OutboxAssumption DEF Budget

\* Sending less leaves a larger budget; starting a send adds one time-out.
LEMMA BudgetGrows ==
  ASSUME NEW r \in Runs, Unsent(r)' \subseteq Unsent(r)
  PROVE  /\ Cardinality(Unsent(r)') <= Cardinality(Unsent(r))
         /\ Budget(r)' \in Int
         /\ Budget(r) <= Budget(r)'
         /\ \A j \in Unsent(r) \ Unsent(r)' :
              Budget(r) + SendTimeout <= Budget(r)'
<1> DEFINE u == Cardinality(Unsent(r))
           v == Cardinality(Unsent(r)')
<1>1. IsFiniteSet(Unsent(r)) /\ u \in Nat
  BY BudgetType
<1>2. IsFiniteSet(Unsent(r)') /\ v \in Nat /\ v <= u
  BY <1>1, FS_Subset, FS_CardinalityType
<1>3. Budget(r) = (BatchSize - u) * SendTimeout
  BY DEF Budget
<1>4. Budget(r)' = (BatchSize - v) * SendTimeout
  BY DEF Budget
<1>5. BatchSize \in Int /\ SendTimeout \in Nat
  BY OutboxAssumption
<1>6. ASSUME NEW j \in Unsent(r) \ Unsent(r)'
      PROVE  Budget(r) + SendTimeout <= Budget(r)'
  <2>1. IsFiniteSet(Unsent(r) \ {j}) /\ Cardinality(Unsent(r) \ {j}) = u - 1
    BY <1>1, <1>6, FS_RemoveElement
  <2>2. Unsent(r)' \subseteq Unsent(r) \ {j}
    BY <1>6
  <2>3. v <= u - 1
    BY <2>1, <2>2, FS_Subset
  <2> HIDE DEF u, v
  <2>4. BatchSize - u + 1 <= BatchSize - v
    BY <1>1, <1>2, <1>5, <2>3
  <2>5. (BatchSize - u + 1) * SendTimeout <= (BatchSize - v) * SendTimeout
    BY <1>1, <1>2, <1>5, <2>4, Products
  <2>6. (BatchSize - u + 1) * SendTimeout
          = (BatchSize - u) * SendTimeout + SendTimeout
    BY <1>1, <1>5, Products
  <2>7. QED
    BY <1>3, <1>4, <2>5, <2>6
<1>7. Budget(r)' \in Int /\ Budget(r) <= Budget(r)'
  <2> HIDE DEF u, v
  <2>1. BatchSize - u <= BatchSize - v
    BY <1>1, <1>2, <1>5
  <2>2. QED
    BY <1>1, <1>2, <1>3, <1>4, <1>5, <2>1, Products
<1>8. QED
  BY <1>2, <1>6, <1>7

\* What every step but Claim and Tick does to leases: nobody takes a job up,
\* rows in hand stay as they are or end, sends start from a lease check.
Calm ==
  /\ \A r \in Runs, j \in Jobs : Holds(r, j)' =>
       /\ Holds(r, j)
       /\ jobs'[j] = jobs[j] \/ jobs'[j].status \in Terminal
       /\ run[r].phase # "idle" => run'[r].phase # "idle"
  /\ \A r \in Runs : run'[r].phase # "idle" =>
       /\ run[r].phase # "idle"
       /\ run'[r].idle = run[r].idle
       /\ run'[r].busy = run[r].busy
  /\ \A r \in Runs : Unsent(r)' \subseteq Unsent(r)
  /\ \A r \in Runs, j \in Jobs : At(r, j)' \in OnWire =>
       \/ At(r, j) \in OnWire /\ lane'[r][j].timer = lane[r][j].timer
       \/ j \in Unsent(r) /\ lane'[r][j].timer = SendTimeout

LEMMA CalmKeepsLeases ==
  ASSUME TypeOK, TypeOK', LeaseInv, Calm
  PROVE  LeaseInv'
<1> SUFFICES ASSUME Prompt
             PROVE  HeldIsOpen' /\ HeldOnce' /\ TimeSpent' /\ LeaseAge'
  BY DEF LeaseInv
<1>1. HeldIsOpen /\ HeldOnce /\ TimeSpent /\ LeaseAge
  BY DEF LeaseInv
<1>2. HeldIsOpen'
  BY <1>1 DEF Calm, HeldIsOpen, Leased
<1>3. HeldOnce'
  BY <1>1 DEF Calm, HeldOnce
<1>4. TimeSpent'
  <2>1. SUFFICES ASSUME NEW r \in Runs, run'[r].phase # "idle"
                 PROVE  /\ Cardinality(Unsent(r)') <= BatchSize
                        /\ run'[r].idle <= Margin
                        /\ run'[r].busy <= Budget(r)'
                        /\ \A j \in Sending(r)' :
                             run'[r].busy + lane'[r][j].timer <= Budget(r)'
    BY DEF TimeSpent
  <2>2. /\ run[r].phase # "idle"
        /\ run'[r].idle = run[r].idle
        /\ run'[r].busy = run[r].busy
        /\ Unsent(r)' \subseteq Unsent(r)
    BY <2>1 DEF Calm
  <2>3. /\ Cardinality(Unsent(r)) <= BatchSize
        /\ run[r].idle <= Margin
        /\ run[r].busy <= Budget(r)
        /\ \A j \in Sending(r) : run[r].busy + lane[r][j].timer <= Budget(r)
    BY <1>1, <2>2 DEF TimeSpent
  <2>4. /\ Cardinality(Unsent(r)') <= Cardinality(Unsent(r))
        /\ Budget(r)' \in Int
        /\ Budget(r) <= Budget(r)'
        /\ \A j \in Unsent(r) \ Unsent(r)' :
             Budget(r) + SendTimeout <= Budget(r)'
    BY <2>2, BudgetGrows
  <2>5. /\ Budget(r) \in Int /\ Cardinality(Unsent(r)) \in Nat
        /\ run[r].busy \in Nat /\ SendTimeout \in Nat /\ BatchSize \in Nat
    BY BudgetType, OutboxAssumption DEF TypeOK, Run
  <2>6. Cardinality(Unsent(r)') \in Nat
    BY <2>2, BudgetType, FS_Subset, FS_CardinalityType
  <2>7. ASSUME NEW j \in Sending(r)'
        PROVE  run'[r].busy + lane'[r][j].timer <= Budget(r)'
    <3>1. j \in Jobs /\ At(r, j)' \in OnWire
      BY <2>7 DEF Sending
    <3>2. lane[r][j].timer \in Nat
      BY <3>1 DEF TypeOK, Lane
    <3>3. CASE At(r, j) \in OnWire /\ lane'[r][j].timer = lane[r][j].timer
      <4>1. run[r].busy + lane[r][j].timer <= Budget(r)
        BY <2>3, <3>1, <3>3 DEF Sending
      <4>2. QED
        BY <2>2, <2>4, <2>5, <3>2, <3>3, <4>1
    <3>4. CASE j \in Unsent(r) /\ lane'[r][j].timer = SendTimeout
      <4>1. j \notin Unsent(r)'
        BY <3>1 DEF Unsent, OnWire, UnsentSteps
      <4>2. Budget(r) + SendTimeout <= Budget(r)'
        BY <2>4, <3>4, <4>1
      <4>3. QED
        BY <2>2, <2>3, <2>4, <2>5, <3>4, <4>2
    <3>5. QED
      BY <3>1, <3>3, <3>4 DEF Calm
  <2>8. QED
    BY <2>2, <2>3, <2>4, <2>5, <2>6, <2>7
<1>5. LeaseAge'
  <2>1. SUFFICES ASSUME NEW r \in Runs, NEW j \in Jobs,
                        Holds(r, j)', Leased(r, j)'
                 PROVE  jobs'[j].age <= run'[r].idle + run'[r].busy
    BY DEF LeaseAge
  <2>2. Holds(r, j) /\ jobs'[j] = jobs[j]
    BY <2>1 DEF Calm, Leased, Terminal
  <2>3. run[r].phase # "idle" /\ run'[r].phase # "idle"
    BY <1>1, <2>1, <2>2 DEF Calm, HeldIsOpen
  <2>4. QED
    BY <1>1, <2>1, <2>2, <2>3 DEF Calm, LeaseAge, Leased
<1>6. QED
  BY <1>2, <1>3, <1>4, <1>5

\* A lane that moves one of its jobs to l, and nothing else, is calm.
LaneMove(r, j, l) ==
  /\ lane' = [lane EXCEPT ![r][j] = l]
  /\ l.at # "none" => Holds(r, j)
  /\ l.at \in UnsentSteps => At(r, j) \in UnsentSteps
  /\ l.at \in OnWire =>
       \/ At(r, j) \in OnWire /\ l.timer = lane[r][j].timer
       \/ At(r, j) \in UnsentSteps /\ l.timer = SendTimeout

KeepsTime ==
  \A r \in Runs : /\ run'[r].phase = run[r].phase
                  /\ run'[r].idle = run[r].idle
                  /\ run'[r].busy = run[r].busy

LEMMA MoveIsCalm ==
  ASSUME TypeOK, NEW r \in Runs, NEW j \in Jobs, NEW l \in Lane,
         LaneMove(r, j, l), KeepsTime,
         \A j1 \in Jobs \ {j} : jobs'[j1] = jobs[j1],
         \A r1 \in Runs : Holds(r1, j)' =>
           jobs'[j] = jobs[j] \/ jobs'[j].status \in Terminal
  PROVE  Calm
<1>1. /\ lane'[r][j] = l
      /\ \A r1 \in Runs, j1 \in Jobs :
           r1 # r \/ j1 # j => lane'[r1][j1] = lane[r1][j1]
  BY DEF LaneMove, TypeOK
<1>2. \A r1 \in Runs, j1 \in Jobs : Holds(r1, j1)' => Holds(r1, j1)
  BY <1>1 DEF LaneMove, Holds, At
<1>3. \A r1 \in Runs, j1 \in Jobs : Holds(r1, j1)' =>
        jobs'[j1] = jobs[j1] \/ jobs'[j1].status \in Terminal
  OBVIOUS
<1>4. \A r1 \in Runs : Unsent(r1)' \subseteq Unsent(r1)
  BY <1>1 DEF LaneMove, Unsent, At
<1>5. \A r1 \in Runs, j1 \in Jobs : At(r1, j1)' \in OnWire =>
        \/ At(r1, j1) \in OnWire /\ lane'[r1][j1].timer = lane[r1][j1].timer
        \/ j1 \in Unsent(r1) /\ lane'[r1][j1].timer = SendTimeout
  BY <1>1 DEF LaneMove, Unsent, At
<1>6. QED
  BY <1>2, <1>3, <1>4, <1>5 DEF Calm, KeepsTime

\* The writes of a lane: only the row of the job, and only if it is leased by
\* the batch, so that no other batch has the job in hand.
LEMMA WriteIsOwn ==
  ASSUME TypeOK, HeldIsOpen, NEW r \in Runs, NEW j \in Jobs, NEW row \in Row,
         NEW l \in Lane, LaneMove(r, j, l), WriteIfLeased(r, j, row),
         l.at = "none" \/ row.status \in Terminal
  PROVE  /\ \A j1 \in Jobs \ {j} : jobs'[j1] = jobs[j1]
         /\ \A r1 \in Runs : Holds(r1, j)' =>
              jobs'[j] = jobs[j] \/ jobs'[j].status \in Terminal
<1>1. \A j1 \in Jobs \ {j} : jobs'[j1] = jobs[j1]
  BY DEF WriteIfLeased, TypeOK
<1>2. ASSUME NEW r1 \in Runs, Holds(r1, j)', jobs'[j].status \notin Terminal
      PROVE  jobs'[j] = jobs[j]
  <2>1. CASE ~Leased(r, j)
    BY <2>1 DEF WriteIfLeased
  <2>2. CASE Leased(r, j)
    <3>1. jobs'[j] = row
      BY <2>2 DEF WriteIfLeased, TypeOK
    <3>2. l.at = "none"
      BY <1>2, <3>1
    <3>3. r1 # r
      BY <1>2, <3>2 DEF LaneMove, Holds, At, TypeOK
    <3>4. Holds(r1, j)
      BY <1>2, <3>3 DEF LaneMove, Holds, At, TypeOK
    <3>5. Leased(r1, j)
      BY <2>2, <3>4 DEF HeldIsOpen, Leased, Terminal
    <3>6. QED
      BY <2>2, <3>3, <3>5 DEF Leased
  <2>3. QED
    BY <2>1, <2>2
<1>3. QED
  BY <1>1, <1>2

\* The three shapes of a move, as one new lane record.
Moved(r, j, step, timer) ==
  \E l \in Lane :
    /\ lane' = [lane EXCEPT ![r][j] = l]
    /\ l.at = step /\ l.timer = timer /\ l.seen = lane[r][j].seen

LEMMA Moves ==
  ASSUME TypeOK, NEW r \in Runs, NEW j \in Jobs
  PROVE  /\ \A step \in LaneSteps :
              Goto(r, j, step) => Moved(r, j, step, lane[r][j].timer)
         /\ \A step \in LaneSteps, timer \in Nat :
              lane' = [lane EXCEPT ![r][j].at = step, ![r][j].timer = timer] =>
                Moved(r, j, step, timer)
<1>1. lane[r][j] \in Lane /\ lane \in [Runs -> [Jobs -> Lane]]
  BY DEF TypeOK
<1>2. ASSUME NEW step \in LaneSteps, Goto(r, j, step)
      PROVE  Moved(r, j, step, lane[r][j].timer)
  <2> DEFINE l == [lane[r][j] EXCEPT !.at = step]
  <2>1. lane' = [lane EXCEPT ![r][j] = l]
    BY <1>1, <1>2 DEF Goto
  <2>2. /\ l \in Lane /\ l.at = step
        /\ l.timer = lane[r][j].timer /\ l.seen = lane[r][j].seen
    BY <1>1 DEF Lane
  <2>3. QED
    BY <2>1, <2>2 DEF Moved
<1>3. ASSUME NEW step \in LaneSteps, NEW timer \in Nat,
             lane' = [lane EXCEPT ![r][j].at = step, ![r][j].timer = timer]
      PROVE  Moved(r, j, step, timer)
  <2> DEFINE l == [lane[r][j] EXCEPT !.at = step, !.timer = timer]
  <2>1. lane' = [lane EXCEPT ![r][j] = l]
    BY <1>1, <1>3
  <2>2. l \in Lane /\ l.at = step /\ l.timer = timer /\ l.seen = lane[r][j].seen
    BY <1>1 DEF Lane
  <2>3. QED
    BY <2>1, <2>2 DEF Moved
<1>4. QED
  BY <1>2, <1>3

\* Calm steps of a lane, by what the step does to the row: nothing, or one of
\* the guarded writes.
LEMMA LeaveIsCalm ==
  ASSUME TypeOK, HeldIsOpen, NEW r \in Runs, NEW j \in Jobs, NEW row \in Row,
         LeaveLane(r, j), KeepsTime,
         UNCHANGED jobs \/ WriteIfLeased(r, j, row)
  PROVE  Calm
<1>1. NoLane \in Lane /\ LaneMove(r, j, NoLane)
  BY LaneType DEF LeaveLane, LaneMove, NoLane, UnsentSteps, OnWire
<1>2. NoLane.at = "none"
  BY DEF NoLane
<1>3. CASE UNCHANGED jobs
  BY <1>1, <1>3, MoveIsCalm
<1>4. CASE WriteIfLeased(r, j, row)
  BY <1>1, <1>2, <1>4, WriteIsOwn, MoveIsCalm
<1>5. QED
  BY <1>3, <1>4

LEMMA GoIsCalm ==
  ASSUME TypeOK, HeldIsOpen, NEW r \in Runs, NEW j \in Jobs, NEW row \in Row,
         NEW step \in LaneSteps \ {"none"}, NEW timer,
         Moved(r, j, step, timer), KeepsTime, Holds(r, j),
         step \in UnsentSteps => At(r, j) \in UnsentSteps,
         step \in OnWire =>
           \/ At(r, j) \in OnWire /\ timer = lane[r][j].timer
           \/ At(r, j) \in UnsentSteps /\ timer = SendTimeout,
         \/ UNCHANGED jobs
         \/ WriteIfLeased(r, j, row) /\ row.status \in Terminal
  PROVE  Calm
<1>1. PICK l \in Lane : /\ lane' = [lane EXCEPT ![r][j] = l]
                        /\ l.at = step /\ l.timer = timer
  BY DEF Moved
<1>2. LaneMove(r, j, l)
  BY <1>1 DEF LaneMove
<1>3. CASE UNCHANGED jobs
  BY <1>2, <1>3, MoveIsCalm
<1>4. CASE WriteIfLeased(r, j, row) /\ row.status \in Terminal
  BY <1>2, <1>4, WriteIsOwn, MoveIsCalm
<1>5. QED
  BY <1>3, <1>4

LEMMA LaneStepIsCalm ==
  ASSUME TypeOK, HeldIsOpen, NEW r \in Runs, NEW j \in Jobs, LaneStep(r, j)
  PROVE  Calm
<1>1. /\ jobs[j] \in Row /\ lane[r][j].seen \in Nat /\ lane[r][j].timer \in Nat
      /\ SendTimeout \in Nat
  BY OutboxAssumption DEF TypeOK, Lane
<1>2. KeepsTime
  BY DEF LaneStep, KeepsTime, ReleaseOrRetry, CheckSuppression, MarkSuppressed,
         CheckLease, SmtpAccepts, SmtpAnswers, SmtpFails, SendTimesOut, MarkSent
<1>3. CASE ReleaseOrRetry(r, j)
  BY <1>2, <1>3, FinalRowType, LeaveIsCalm DEF ReleaseOrRetry
<1>4. CASE CheckSuppression(r, j)
  <2>1. At(r, j) = "pending" /\ Holds(r, j) /\ jobs' = jobs
    BY <1>4 DEF CheckSuppression, CanTake, Holds
  <2>2. CASE eligible[j]
    <3>1. Moved(r, j, "leaseCheck", lane[r][j].timer)
      BY <1>4, <2>2, Moves DEF CheckSuppression, LaneSteps
    <3>2. QED
      BY <1>1, <1>2, <2>1, <3>1, GoIsCalm DEF LaneSteps, UnsentSteps, OnWire
  <2>3. CASE ~eligible[j]
    <3>1. Moved(r, j, "suppressing", lane[r][j].timer)
      BY <1>4, <2>3, Moves DEF CheckSuppression, LaneSteps
    <3>2. QED
      BY <1>1, <1>2, <2>1, <3>1, GoIsCalm DEF LaneSteps, UnsentSteps, OnWire
  <2>4. QED
    BY <2>2, <2>3
<1>5. CASE MarkSuppressed(r, j)
  <2>1. Unlocked(jobs[j], "suppressed", 0) \in Row
    BY <1>1, UnlockedType DEF Statuses
  <2>2. QED
    BY <1>2, <1>5, <2>1, LeaveIsCalm DEF MarkSuppressed
<1>6. CASE CheckLease(r, j)
  <2>1. At(r, j) = "leaseCheck" /\ Holds(r, j) /\ jobs' = jobs
    BY <1>6 DEF CheckLease, Holds
  <2>2. CASE Leased(r, j)
    <3>1. Moved(r, j, "sending", SendTimeout)
      BY <1>1, <1>6, <2>2, Moves DEF CheckLease, LaneSteps, OnWire
    <3>2. QED
      BY <1>1, <1>2, <2>1, <3>1, GoIsCalm DEF LaneSteps, UnsentSteps, OnWire
  <2>3. CASE ~Leased(r, j)
    BY <1>1, <1>2, <1>6, <2>1, <2>3, LeaveIsCalm DEF CheckLease
  <2>4. QED
    BY <2>2, <2>3
<1>7. CASE SmtpAccepts(r, j)
  <2>1. At(r, j) = "sending" /\ Holds(r, j) /\ jobs' = jobs
    BY <1>7 DEF SmtpAccepts, Holds
  <2>2. Moved(r, j, "delivered", lane[r][j].timer)
    BY <1>7, Moves DEF SmtpAccepts, LaneSteps, OnWire
  <2>3. QED
    BY <1>1, <1>2, <2>1, <2>2, GoIsCalm DEF LaneSteps, UnsentSteps, OnWire
<1>8. CASE SmtpAnswers(r, j)
  <2>1. Holds(r, j) /\ jobs' = jobs
    BY <1>8 DEF SmtpAnswers, Holds
  <2>2. Moved(r, j, "marking", 0)
    BY <1>8, Moves DEF SmtpAnswers, LaneSteps
  <2>3. QED
    BY <1>1, <1>2, <2>1, <2>2, GoIsCalm DEF LaneSteps, UnsentSteps, OnWire
<1>9. CASE SmtpFails(r, j)
  <2>1. Holds(r, j) /\ jobs' = jobs
    BY <1>9 DEF SmtpFails, Holds, OnWire
  <2>2. Moved(r, j, "retry", 0)
    BY <1>9, Moves DEF SmtpFails, LaneSteps
  <2>3. QED
    BY <1>1, <1>2, <2>1, <2>2, GoIsCalm DEF LaneSteps, UnsentSteps, OnWire
<1>10. CASE SendTimesOut(r, j)
  <2>1. Holds(r, j) /\ jobs' = jobs
    BY <1>10 DEF SendTimesOut, Holds, OnWire
  <2>2. Moved(r, j, "retry", lane[r][j].timer)
    BY <1>10, Moves DEF SendTimesOut, LaneSteps
  <2>3. QED
    BY <1>1, <1>2, <2>1, <2>2, GoIsCalm DEF LaneSteps, UnsentSteps, OnWire
<1>11. CASE MarkSent(r, j)
  BY <1>1, <1>2, <1>11, SentRowType, LeaveIsCalm DEF MarkSent
<1>12. QED
  BY <1>3, <1>4, <1>5, <1>6, <1>7, <1>8, <1>9, <1>10, <1>11 DEF LaneStep

LEMMA ThrowIsCalm ==
  ASSUME TypeOK, HeldIsOpen, NEW r \in Runs, NEW j \in Jobs,
         FinalWriteThrows(r, j) \/ LaneCallThrows(r, j)
  PROVE  Calm
<1>1. jobs[j] \in Row /\ lane[r][j].seen \in Nat /\ lane[r][j].timer \in Nat
  BY DEF TypeOK, Lane
<1>2. CASE FinalWriteThrows(r, j)
  <2>1. KeepsTime
    BY <1>2 DEF FinalWriteThrows, LaneThrows, KeepsTime, TypeOK, Run
  <2>2. QED
    BY <1>2, <2>1, FinalRowType, LeaveIsCalm DEF FinalWriteThrows
<1>3. CASE LaneCallThrows(r, j)
  <2>1. KeepsTime
    BY <1>3 DEF LaneCallThrows, KeepsTime
  <2>2. Moved(r, j, "retry", lane[r][j].timer) /\ Holds(r, j)
    BY <1>3, Moves DEF LaneCallThrows, LaneSteps, Holds, CanTake
  <2>3. CASE UNCHANGED jobs
    BY <1>1, <2>1, <2>2, <2>3, GoIsCalm DEF LaneSteps, UnsentSteps, OnWire
  <2>4. CASE WriteIfLeased(r, j, Unlocked(jobs[j], "suppressed", 0))
    <3> DEFINE row == Unlocked(jobs[j], "suppressed", 0)
    <3>1. row \in Row /\ row.status \in Terminal
      BY <1>1, UnlockedType DEF Statuses, Unlocked, Row, Terminal
    <3>2. WriteIfLeased(r, j, row)
      BY <2>4
    <3> HIDE DEF row
    <3>3. QED
      BY <2>1, <2>2, <3>1, <3>2, GoIsCalm DEF LaneSteps, UnsentSteps, OnWire
  <2>5. CASE WriteIfLeased(r, j, SentRow(jobs[j], lane[r][j].seen))
    <3> DEFINE row == SentRow(jobs[j], lane[r][j].seen)
    <3>1. row \in Row /\ row.status \in Terminal
      BY <1>1, SentRowType DEF SentRow, Unlocked, Row, Terminal
    <3>2. WriteIfLeased(r, j, row)
      BY <2>5
    <3> HIDE DEF row
    <3>3. QED
      BY <2>1, <2>2, <3>1, <3>2, GoIsCalm DEF LaneSteps, UnsentSteps, OnWire
  <2>6. QED
    BY <1>3, <2>3, <2>4, <2>5 DEF LaneCallThrows
<1>4. QED
  BY <1>2, <1>3

LEMMA BatchStepIsCalm ==
  ASSUME TypeOK, NEW r \in Runs, LoadConfig(r) \/ Finish(r) \/ Crash(r)
  PROVE  Calm
<1>1. CASE LoadConfig(r)
  <2>1. /\ lane' = lane /\ jobs' = jobs
        /\ \A r1 \in Runs : /\ run[r1].phase # "idle" <=> run'[r1].phase # "idle"
                            /\ run'[r1].idle = run[r1].idle
                            /\ run'[r1].busy = run[r1].busy
    BY <1>1 DEF LoadConfig, TypeOK, Run
  <2>2. QED
    BY <2>1 DEF Calm, Holds, At, Unsent
<1>2. CASE Finish(r) \/ Crash(r)
  <2>1. /\ jobs' = jobs
        /\ run' = [run EXCEPT ![r] = NoBatch]
        /\ lane' = [lane EXCEPT ![r] = [j \in Jobs |-> NoLane]]
    BY <1>2 DEF Finish, Crash
  <2>2. run'[r].phase = "idle" /\ \A j \in Jobs : lane'[r][j].at = "none"
    BY <2>1 DEF TypeOK, NoBatch, NoLane
  <2>3. \A r1 \in Runs \ {r} : run'[r1] = run[r1] /\ lane'[r1] = lane[r1]
    BY <2>1 DEF TypeOK
  <2>4. \A r1 \in Runs, j \in Jobs : Holds(r1, j)' => r1 # r
    BY <2>2 DEF Holds, At
  <2>5. \A r1 \in Runs, j \in Jobs : At(r1, j)' \in OnWire => r1 # r
    BY <2>2 DEF At, OnWire
  <2>6. \A r1 \in Runs : Unsent(r1)' \subseteq Unsent(r1)
    BY <2>2, <2>3 DEF Unsent, At, UnsentSteps
  <2>7. QED
    BY <2>1, <2>2, <2>3, <2>4, <2>5, <2>6 DEF Calm, Holds, At
<1>3. QED
  BY <1>1, <1>2

\* Outside the worker, a row in hand can only end.
LEMMA SiteStepIsCalm ==
  ASSUME TypeOK, HeldIsOpen, NEW j \in Jobs,
         \/ Enqueue(j) \/ Revoke(j) \/ RevokeLate(j) \/ Restore(j)
         \/ Purge(j) \/ RetryFailed(j) \/ LateOutcome(j)
  PROVE  Calm
<1>1. lane' = lane /\ run' = run
  BY DEF Enqueue, Revoke, RevokeLate, RevokeLooks, RevokeOvertaken,
         Restore, Purge, RetryFailed, LateOutcome
<1>2. \A j1 \in Jobs \ {j} : jobs'[j1] = jobs[j1]
  BY DEF Enqueue, Revoke, RevokeLate, RevokeLooks, RevokeOvertaken,
         Restore, Purge, RetryFailed, LateOutcome, TypeOK
<1>3. \/ jobs'[j] = jobs[j]
      \/ jobs'[j].status \in Terminal
      \/ jobs[j].status \in {"absent", "failed"}
  <2>1. jobs \in [Jobs -> Row] /\ jobs[j] \in Row
    BY DEF TypeOK
  <2>2. CASE Enqueue(j)
    BY <2>1, <2>2 DEF Enqueue
  <2>3. CASE Revoke(j)
    <3>1. Unlocked(jobs[j], "suppressed", 0).status = "suppressed"
      BY <2>1 DEF Unlocked, Row
    <3>2. QED
      BY <2>1, <2>3, <3>1 DEF Revoke, Terminal
  <2>4. CASE Purge(j)
    <3>1. [AbsentRow EXCEPT !.status = "purged"].status = "purged"
      BY DEF AbsentRow
    <3>2. QED
      BY <2>1, <2>4, <3>1 DEF Purge, Terminal
  <2>5. CASE RevokeLate(j) \/ Restore(j) \/ RetryFailed(j) \/ LateOutcome(j)
    BY <2>5 DEF RevokeLate, RevokeLooks, RevokeOvertaken, Restore, RetryFailed,
                LateOutcome
  <2>6. QED
    BY <2>2, <2>3, <2>4, <2>5
<1>4. \A r \in Runs : Holds(r, j) => jobs[j].status \notin {"absent", "failed"}
  BY DEF HeldIsOpen, Leased, Terminal
<1>5. QED
  BY <1>1, <1>2, <1>3, <1>4 DEF Calm, Holds, At, Unsent

LEMMA ToggleIsCalm ==
  ASSUME Toggle
  PROVE  Calm
BY DEF Toggle, Calm, Holds, At, Unsent

\* No live lease is stale, so a claim takes up only what nobody has in hand.
LEMMA LeaseLives ==
  ASSUME TypeOK, LeaseInv, Prompt,
         NEW r \in Runs, NEW j \in Jobs, Holds(r, j), Leased(r, j)
  PROVE  ~Stale(j)
<1>1. /\ HeldIsOpen /\ TimeSpent /\ LeaseAge
      /\ run[r].phase # "idle"
  BY DEF LeaseInv, HeldIsOpen
<1>2. /\ jobs[j].age <= run[r].idle + run[r].busy
      /\ run[r].idle <= Margin
      /\ run[r].busy <= Budget(r)
  BY <1>1 DEF LeaseAge, TimeSpent
<1>3. /\ Budget(r) \in Int
      /\ Budget(r) <= BatchSize * SendTimeout
  BY BudgetType
<1>4. BatchSize * SendTimeout <= MaxBatch * SendTimeout
  BY Products, OutboxAssumption, BatchAssumption
<1>5. /\ BatchSize * SendTimeout \in Nat /\ MaxBatch * SendTimeout \in Nat
      /\ Margin \in Nat
  BY OutboxAssumption
<1>6. /\ jobs[j].age \in Nat /\ run[r].idle \in Nat /\ run[r].busy \in Nat
  BY DEF TypeOK, Row, Run
<1>7. jobs[j].age <= LockTimeout
  BY <1>2, <1>3, <1>4, <1>5, <1>6 DEF LockTimeout
<1>8. LockTimeout \in Nat
  BY <1>5 DEF LockTimeout
<1>9. QED
  BY <1>6, <1>7, <1>8 DEF Stale

LEMMA ClaimKeepsLeases ==
  ASSUME TypeOK, TypeOK', LeaseInv, NEW r \in Runs, Claim(r)
  PROVE  LeaseInv'
<1> SUFFICES ASSUME Prompt
             PROVE  HeldIsOpen' /\ HeldOnce' /\ TimeSpent' /\ LeaseAge'
  BY DEF LeaseInv
<1>1. HeldIsOpen /\ HeldOnce /\ TimeSpent /\ LeaseAge
  BY DEF LeaseInv
<1>2. PICK stale \in SUBSET Jobs, taken \in SUBSET Jobs :
        /\ \A j \in stale : Stale(j)
        /\ \A j \in taken : Due(j) \/ j \in stale
        /\ Cardinality(taken) <= BatchSize
        /\ jobs' = [j \in Jobs |->
             IF j \in taken
             THEN [jobs[j] EXCEPT !.status = "processing", !.wait = 0,
                                  !.age = 0, !.owner = r]
             ELSE IF j \in stale THEN Unlocked(jobs[j], "queued", 0)
             ELSE jobs[j]]
        /\ lane' = [lane EXCEPT ![r] = [j \in Jobs |->
             IF j \in taken
             THEN [at |-> "pending", seen |-> jobs[j].attempts, timer |-> 0]
             ELSE NoLane]]
        /\ run' = [run EXCEPT ![r] = [phase |-> "loading",
                      lanes |-> Concurrency, idle |-> 0, busy |-> 0]]
  BY DEF Claim
<1>3. /\ run[r].phase = "idle"
      /\ run'[r] = [phase |-> "loading", lanes |-> Concurrency,
                    idle |-> 0, busy |-> 0]
      /\ \A r1 \in Runs \ {r} : run'[r1] = run[r1] /\ lane'[r1] = lane[r1]
  BY <1>2 DEF Claim, TypeOK
<1>4. \A j \in Jobs : At(r, j)' = IF j \in taken THEN "pending" ELSE "none"
  BY <1>2 DEF At, NoLane, TypeOK
\* What other batches have in hand is neither due nor stale.
<1>5. ASSUME NEW r1 \in Runs, NEW j \in Jobs, Holds(r1, j)
      PROVE  j \notin taken /\ j \notin stale /\ jobs'[j] = jobs[j]
  <2>1. Leased(r1, j) \/ jobs[j].status \in Terminal
    BY <1>1, <1>5 DEF HeldIsOpen
  <2>2. ~Stale(j)
    BY <1>5, <2>1, LeaseLives DEF Stale, Terminal
  <2>3. ~Due(j)
    BY <2>1 DEF Due, Leased, Terminal
  <2>4. j \notin taken /\ j \notin stale
    BY <1>2, <2>2, <2>3
  <2>5. QED
    BY <1>2, <2>4
<1>6. ASSUME NEW j \in taken
      PROVE  jobs'[j].status = "processing" /\ jobs'[j].owner = r
                /\ jobs'[j].age = 0
  <2>1. j \in Jobs /\ jobs[j] \in Row
    BY DEF TypeOK
  <2>2. QED
    BY <1>2, <2>1 DEF Row
<1>7. \A r1 \in Runs \ {r}, j \in Jobs : Holds(r1, j)' => Holds(r1, j)
  BY <1>3 DEF Holds, At
<1>8. \A j \in Jobs : Holds(r, j)' => j \in taken
  BY <1>4 DEF Holds
<1>9. HeldIsOpen'
  <2>1. SUFFICES ASSUME NEW r1 \in Runs, NEW j \in Jobs, Holds(r1, j)'
                 PROVE  /\ run'[r1].phase # "idle"
                        /\ Leased(r1, j)' \/ jobs'[j].status \in Terminal
    BY DEF HeldIsOpen
  <2>2. CASE r1 = r
    BY <1>3, <1>6, <1>8, <2>1, <2>2 DEF Leased
  <2>3. CASE r1 # r
    BY <1>1, <1>3, <1>5, <1>7, <2>1, <2>3 DEF HeldIsOpen, Leased
  <2>4. QED
    BY <2>2, <2>3
<1>10. HeldOnce'
  <2>1. SUFFICES ASSUME NEW r1 \in Runs, NEW r2 \in Runs, NEW j \in Jobs,
                        Holds(r1, j)', Holds(r2, j)'
                 PROVE  r1 = r2
    BY DEF HeldOnce
  <2>2. QED
    BY <1>1, <1>5, <1>7, <1>8, <2>1 DEF HeldOnce
<1>11. LeaseAge'
  <2>1. SUFFICES ASSUME NEW r1 \in Runs, NEW j \in Jobs,
                        Holds(r1, j)', Leased(r1, j)'
                 PROVE  jobs'[j].age <= run'[r1].idle + run'[r1].busy
    BY DEF LeaseAge
  <2>2. CASE r1 = r
    BY <1>3, <1>6, <1>8, <2>1, <2>2
  <2>3. CASE r1 # r
    BY <1>1, <1>3, <1>5, <1>7, <2>1, <2>3 DEF LeaseAge, Leased
  <2>4. QED
    BY <2>2, <2>3
<1>12. TimeSpent'
  <2>1. SUFFICES ASSUME NEW r1 \in Runs, run'[r1].phase # "idle"
                 PROVE  /\ Cardinality(Unsent(r1)') <= BatchSize
                        /\ run'[r1].idle <= Margin
                        /\ run'[r1].busy <= Budget(r1)'
                        /\ \A j \in Sending(r1)' :
                             run'[r1].busy + lane'[r1][j].timer <= Budget(r1)'
    BY DEF TimeSpent
  <2>2. CASE r1 = r
    <3>1. Unsent(r)' = taken
      BY <1>2, <1>4 DEF Unsent, UnsentSteps
    <3>2. Sending(r)' = {}
      BY <1>4 DEF Sending, OnWire
    <3>3. Cardinality(taken) \in Nat /\ Cardinality(taken) <= BatchSize
      BY <1>2, OutboxAssumption, FS_Subset, FS_CardinalityType
    <3>4. Budget(r)' = (BatchSize - Cardinality(taken)) * SendTimeout
      BY <3>1 DEF Budget
    <3>5. BatchSize - Cardinality(taken) \in Nat
      BY <3>3, OutboxAssumption
    <3>6. Budget(r)' \in Nat
      BY <3>4, <3>5, OutboxAssumption
    <3>7. run'[r].idle = 0 /\ run'[r].busy = 0 /\ Margin \in Nat
      BY <1>3, OutboxAssumption
    <3>8. QED
      BY <2>2, <3>1, <3>2, <3>3, <3>6, <3>7
  <2>3. CASE r1 # r
    <3>1. run'[r1] = run[r1] /\ lane'[r1] = lane[r1]
      BY <1>3, <2>3
    <3>2. Unsent(r1)' = Unsent(r1) /\ Sending(r1)' = Sending(r1)
      BY <3>1 DEF Unsent, Sending, At
    <3>3. QED
      BY <1>1, <2>1, <3>1, <3>2 DEF TimeSpent, Budget
  <2>4. QED
    BY <2>2, <2>3
<1>13. QED
  BY <1>9, <1>10, <1>11, <1>12

\* One unit of time: a send uses up its timer as fast as its batch its budget,
\* and a lease ages as fast as its batch spends time.
LEMMA TickKeepsLeases ==
  ASSUME TypeOK, TypeOK', LeaseInv, Tick
  PROVE  LeaseInv'
<1> SUFFICES ASSUME Prompt
             PROVE  HeldIsOpen' /\ HeldOnce' /\ TimeSpent' /\ LeaseAge'
  BY DEF LeaseInv
<1>1. HeldIsOpen /\ HeldOnce /\ TimeSpent /\ LeaseAge
  BY DEF LeaseInv
<1>2. ASSUME NEW j \in Jobs
      PROVE  /\ jobs'[j].status = jobs[j].status
             /\ jobs'[j].owner = jobs[j].owner
             /\ jobs'[j].age \in {jobs[j].age, jobs[j].age + 1}
  <2>1. jobs[j] \in Row /\ jobs'[j] = Aged(jobs[j])
    BY DEF TypeOK, Tick
  <2> DEFINE w == IF jobs[j].wait > 0 THEN jobs[j].wait - 1 ELSE 0
             a == IF jobs[j].status = "processing" /\ jobs[j].age <= LockTimeout
                  THEN jobs[j].age + 1 ELSE jobs[j].age
  <2>2. jobs'[j] = [jobs[j] EXCEPT !.wait = w, !.age = a]
    BY <2>1 DEF Aged
  <2>3. a \in {jobs[j].age, jobs[j].age + 1}
    OBVIOUS
  <2> HIDE DEF w, a
  <2>4. QED
    BY <2>1, <2>2, <2>3 DEF Row
<1>3. ASSUME NEW r \in Runs, NEW j \in Jobs
      PROVE  /\ At(r, j)' = At(r, j)
             /\ At(r, j) \in OnWire => lane'[r][j].timer = lane[r][j].timer - 1
  <2>1. lane[r][j] \in Lane
    BY DEF TypeOK
  <2>2. lane'[r][j] = [lane[r][j] EXCEPT !.timer =
           IF At(r, j) \in OnWire THEN lane[r][j].timer - 1
           ELSE lane[r][j].timer]
    BY DEF Tick
  <2>3. QED
    BY <2>1, <2>2 DEF Lane, At
<1>4. ASSUME NEW r \in Runs
      PROVE  /\ run'[r].phase = run[r].phase
             /\ run[r].phase # "idle" =>
                  IF Sending(r) = {}
                  THEN /\ run[r].idle < Margin
                       /\ run'[r].idle = run[r].idle + 1
                       /\ run'[r].busy = run[r].busy
                  ELSE /\ run'[r].idle = run[r].idle
                       /\ run'[r].busy = run[r].busy + 1
  <2>1. run[r] \in Run
    BY DEF TypeOK
  <2>2. run'[r] = IF run[r].phase = "idle" THEN run[r]
                  ELSE IF Sending(r) = {}
                  THEN [run[r] EXCEPT !.idle = run[r].idle + 1]
                  ELSE [run[r] EXCEPT !.busy = run[r].busy + 1]
    BY DEF Tick
  <2>3. run[r].phase # "idle" /\ Sending(r) = {} => run[r].idle < Margin
    BY DEF Tick
  <2>4. QED
    BY <2>1, <2>2, <2>3 DEF Run
<1>5. \A r \in Runs, j \in Jobs :
        /\ Holds(r, j)' <=> Holds(r, j)
        /\ Leased(r, j)' <=> Leased(r, j)
  BY <1>2, <1>3 DEF Holds, Leased
<1>6. HeldIsOpen'
  BY <1>1, <1>2, <1>4, <1>5 DEF HeldIsOpen
<1>7. HeldOnce'
  BY <1>1, <1>5 DEF HeldOnce
<1>8. TimeSpent'
  <2>1. SUFFICES ASSUME NEW r \in Runs, run'[r].phase # "idle"
                 PROVE  /\ Cardinality(Unsent(r)') <= BatchSize
                        /\ run'[r].idle <= Margin
                        /\ run'[r].busy <= Budget(r)'
                        /\ \A j \in Sending(r)' :
                             run'[r].busy + lane'[r][j].timer <= Budget(r)'
    BY DEF TimeSpent
  <2>2. run[r].phase # "idle"
    BY <1>4, <2>1
  <2>3. Unsent(r)' = Unsent(r) /\ Sending(r)' = Sending(r)
    BY <1>3 DEF Unsent, Sending
  <2>4. Budget(r)' = Budget(r)
    BY <2>3 DEF Budget
  <2>5. /\ Cardinality(Unsent(r)) <= BatchSize
        /\ run[r].idle <= Margin
        /\ run[r].busy <= Budget(r)
        /\ \A j \in Sending(r) : run[r].busy + lane[r][j].timer <= Budget(r)
    BY <1>1, <2>2 DEF TimeSpent
  <2>6. /\ Budget(r) \in Int /\ Margin \in Nat
        /\ run[r].busy \in Nat /\ run[r].idle \in Nat
    BY BudgetType, OutboxAssumption DEF TypeOK, Run
  <2>7. \A j \in Sending(r) : /\ lane[r][j].timer \in Nat
                              /\ lane[r][j].timer > 0
                              /\ lane'[r][j].timer = lane[r][j].timer - 1
    BY <1>3 DEF Sending, Tick, TypeOK, Lane
  <2>8. CASE Sending(r) = {}
    <3>1. /\ run[r].idle < Margin
          /\ run'[r].idle = run[r].idle + 1
          /\ run'[r].busy = run[r].busy
      BY <1>4, <2>2, <2>8
    <3>2. QED
      BY <2>3, <2>4, <2>5, <2>6, <2>8, <3>1
  <2>9. CASE Sending(r) # {}
    <3>1. run'[r].idle = run[r].idle /\ run'[r].busy = run[r].busy + 1
      BY <1>4, <2>2, <2>9
    <3>2. \A j \in Sending(r) :
            run'[r].busy + lane'[r][j].timer <= Budget(r)
      BY <2>5, <2>6, <2>7, <3>1
    <3>3. PICK j \in Sending(r) : TRUE
      BY <2>9
    <3>4. run'[r].busy <= Budget(r)
      BY <2>5, <2>6, <2>7, <3>1, <3>3
    <3>5. QED
      BY <2>3, <2>4, <2>5, <3>1, <3>2, <3>4
  <2>10. QED
    BY <2>8, <2>9
<1>9. LeaseAge'
  <2>1. SUFFICES ASSUME NEW r \in Runs, NEW j \in Jobs,
                        Holds(r, j)', Leased(r, j)'
                 PROVE  jobs'[j].age <= run'[r].idle + run'[r].busy
    BY DEF LeaseAge
  <2>2. jobs[j].age <= run[r].idle + run[r].busy /\ run[r].phase # "idle"
    BY <1>1, <1>5, <2>1 DEF LeaseAge, HeldIsOpen
  <2>3. jobs[j].age \in Nat /\ run[r].idle \in Nat /\ run[r].busy \in Nat
    BY DEF TypeOK, Row, Run
  <2>4. run'[r].idle + run'[r].busy = run[r].idle + run[r].busy + 1
    BY <1>4, <2>2, <2>3
  <2>5. QED
    BY <1>2, <2>2, <2>3, <2>4
<1>10. QED
  BY <1>6, <1>7, <1>8, <1>9

LEMMA LeaseInit == Init => LeaseInv
<1> SUFFICES ASSUME Init PROVE LeaseInv
  OBVIOUS
<1>1. \A r \in Runs : run[r].phase = "idle"
  BY DEF Init, NoBatch
<1>2. \A r \in Runs, j \in Jobs : ~Holds(r, j)
  BY DEF Init, Holds, At, NoLane
<1>3. QED
  BY <1>1, <1>2 DEF LeaseInv, HeldIsOpen, HeldOnce, TimeSpent, LeaseAge

LEMMA LeaseStep ==
  ASSUME TypeOK, TypeOK', LeaseInv, [Next]_vars
  PROVE  LeaseInv'
<1>1. CASE UNCHANGED vars
  BY <1>1 DEF vars, LeaseInv, HeldIsOpen, HeldOnce, TimeSpent, LeaseAge, Holds,
     Leased, At, Sending, Unsent, Budget
<1>2. CASE \E r \in Runs : Claim(r)
  BY <1>2, ClaimKeepsLeases
<1>3. CASE Tick
  BY <1>3, TickKeepsLeases
<1>4. CASE Prompt /\ Next /\ ~Tick /\ ~\E r \in Runs : Claim(r)
  <2>1. HeldIsOpen
    BY <1>4 DEF LeaseInv
  <2>2. Calm
    BY <1>4, <2>1, LaneStepIsCalm, ThrowIsCalm, BatchStepIsCalm, SiteStepIsCalm,
       ToggleIsCalm DEF Next
  <2>3. QED
    BY <2>2, CalmKeepsLeases
<1>5. CASE ~Prompt
  BY <1>5 DEF LeaseInv
<1>6. QED
  BY <1>1, <1>2, <1>3, <1>4, <1>5

LEMMA LeaseInvariant == Spec => []LeaseInv
<1>1. TypeOK /\ TypeOK' /\ LeaseInv /\ [Next]_vars => LeaseInv'
  BY LeaseStep
<1>2. QED
  BY LeaseInit, TypeCorrect, <1>1, PTL DEF Spec

\* LOCK_TIMEOUT_MS is long enough, whatever the batch size, the number of
\* lanes and the send time-out: no lease of a live prompt batch is stale.
THEOREM LeaseOutlivesBatch == Spec => []LiveLeaseNeverStale
<1>1. TypeOK /\ LeaseInv => LiveLeaseNeverStale
  BY LeaseLives DEF LiveLeaseNeverStale
<1>2. QED
  BY TypeCorrect, LeaseInvariant, <1>1, PTL

\* Any number of batches may work on the table: no two of them ever have the
\* same job in hand.
THEOREM OneBatchPerJob == Spec => []NoDoubleSend
<1>1. LeaseInv => NoDoubleSend
  BY DEF LeaseInv, HeldOnce, NoDoubleSend
<1>2. QED
  BY LeaseInvariant, <1>1, PTL
=============================================================================
