---------------------------- MODULE MCCallCenter ----------------------------
(***************************************************************************)
(* Instances of CallCenter for TLC.                                        *)
(***************************************************************************)
EXTENDS CallCenter, TLC

CONSTANT MaxBacklog  \* bound on Backlog; 0 where no run constrains it

Symmetry == Permutations(Incoming) \cup Permutations(Uuids)

\* Bounds how much the application is waiting for at once.
Backlog ==
  Len(mainq) + Cardinality(req) + Cardinality(actions) + Cardinality(reports)
BoundedBacklog == Backlog <= MaxBacklog

=============================================================================
