----------------------------- MODULE MCDocuments -----------------------------
(* An instance of Documents small enough for TLC. *)
EXTENDS Documents, TLC, FiniteSets

\* Sound where every editor is an administrator.
Interchangeable == Permutations(Editors) \union Permutations(Contents)

\* Bounds: at most two of the users have the document open at a time, and
\* nothing goes on once it has its last version.
InBounds ==
  /\ Cardinality({u \in Users : client[u].phase # "away"}) <= 2
  /\ doc.version < MaxVersion
=============================================================================
