---------------------------- MODULE MCMailOutbox ----------------------------
(* Instances of MailOutbox small enough for TLC. *)
EXTENDS MailOutbox, TLC

\* delayForAttempt with its unit, 10 s, and its cap, 1 h, scaled to 1 and 2.
MCDelay == [n \in 1..MaxAttempts |-> IF n = 1 THEN 1 ELSE 2]

RunSymmetry == Permutations(Runs)
Symmetric == Permutations(Runs) \union Permutations(Jobs)
=============================================================================
