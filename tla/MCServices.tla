------------------------------ MODULE MCServices ------------------------------
(* Limits small enough for TLC: windows of two lengths, buckets that overlap. *)
EXTENDS Services, TLC

\* Browsers and editors differ only in what they do, passwords in nothing.
Interchangeable ==
  Permutations(Browsers) \union Permutations(Editors) \union Permutations(Passwords)

\* Two calls about accounts at a time: every race is between two.
InBounds == Cardinality({x \in Callers : ~Idle(x)}) <= 2

MCLimits == [subscribe |-> [global |-> 3, email |-> 1, ip |-> 2],
             token |-> [global |-> 2, ip |-> 1]]
MCWindows == [subscribe |-> [global |-> 1, email |-> 2, ip |-> 1],
              token |-> [global |-> 1, ip |-> 1]]
=============================================================================
