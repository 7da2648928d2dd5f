--------------------------- MODULE OutboxContract ---------------------------
(***************************************************************************)
(* What the mail outbox promises about one job, whoever executes it: once  *)
(* the transaction that enqueued it has committed, a job is delivered at   *)
(* least once, or visibly given up, or cancelled because its recipient or  *)
(* its subject revoked it.  It is never lost and, once delivered or        *)
(* cancelled, never revived.  SMTP may accept the message again at any     *)
(* time: exactly-once delivery is not promised (docs/SMTP配置.md:52).      *)
(***************************************************************************)
EXTENDS Naturals

CONSTANT Jobs

VARIABLES
  fate,      \* what the site records about each job
  accepted,  \* how often the SMTP server accepted it: 0, 1, or 2 for "more"
  revoked    \* the jobs whose recipient or subject was ever revoked

contractVars == <<fate, accepted, revoked>>

Fates == {"absent", "pending", "sent", "failed", "suppressed", "purged"}

OnceMore(n) == IF n < 2 THEN n + 1 ELSE 2

ContractTypeOK ==
  /\ fate \in [Jobs -> Fates]
  /\ accepted \in [Jobs -> 0..2]
  /\ revoked \subseteq Jobs

ContractInit ==
  /\ fate = [j \in Jobs |-> "absent"]
  /\ accepted = [j \in Jobs |-> 0]
  /\ revoked = {}

Commit(j) ==
  /\ fate[j] = "absent"
  /\ fate' = [fate EXCEPT ![j] = "pending"]
  /\ UNCHANGED <<accepted, revoked>>

Accept(j) ==
  /\ fate[j] # "absent"
  /\ accepted' = [accepted EXCEPT ![j] = OnceMore(@)]
  /\ UNCHANGED <<fate, revoked>>

\* A pending job is settled: as sent only if SMTP really took it, as
\* suppressed only if somebody really revoked it.
Settle(j, outcome) ==
  /\ fate[j] = "pending"
  /\ outcome = "sent" => accepted[j] > 0
  /\ outcome = "suppressed" => j \in revoked
  /\ fate' = [fate EXCEPT ![j] = outcome]
  /\ UNCHANGED <<accepted, revoked>>

Reopen(j) ==
  /\ fate[j] = "failed"
  /\ fate' = [fate EXCEPT ![j] = "pending"]
  /\ UNCHANGED <<accepted, revoked>>

\* A revocation cancels a pending job, or leaves one that was committed in
\* the meantime to the check before its delivery.
Withdraw(j) ==
  /\ revoked' = revoked \union {j}
  /\ \/ UNCHANGED fate
     \/ fate' = [fate EXCEPT ![j] = IF @ = "pending" THEN "suppressed" ELSE @]
  /\ UNCHANGED accepted

Erase(j) ==
  /\ fate[j] # "absent"
  /\ fate' = [fate EXCEPT ![j] = "purged"]
  /\ UNCHANGED <<accepted, revoked>>

ContractNext ==
  \E j \in Jobs :
    \/ Commit(j) \/ Accept(j) \/ Reopen(j) \/ Withdraw(j) \/ Erase(j)
    \/ \E outcome \in {"sent", "failed", "suppressed"} : Settle(j, outcome)

ContractSpec == ContractInit /\ [][ContractNext]_contractVars
=============================================================================
