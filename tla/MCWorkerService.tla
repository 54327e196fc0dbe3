--------------------------- MODULE MCWorkerService ---------------------------
(* Instances of WorkerService for TLC. *)
EXTENDS WorkerService

CONSTANTS r1, r2, v1, v2

TaskOf(repo, state, dir, rev) == [repo |-> repo, state |-> state, dir |-> dir, rev |-> rev]

\* Two runs for a repository each are given one checkout: one of them may be
\* refused at its last lock.
OneCheckout ==
  [r \in {r1, r2} |-> IF r = r1 THEN TaskOf("a", "s1", "d1", v1) ELSE TaskOf("b", "s2", "d1", v1)]

\* Two runs ask for a revision each of one pull request.
Shared == [r \in {r1, r2} |-> TaskOf("a", "s1", "d1", IF r = r1 THEN v1 ELSE v2)]

=============================================================================
