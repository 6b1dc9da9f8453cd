---------------------------- MODULE MCWorkerPool ----------------------------
(* A pool whose jobs push jobs, as a crawl's do, and whose user pushes, at *)
(* once and by timer, at any time; with and without a pause between jobs.  *)
EXTENDS WorkerPool

CONSTANTS j1, j2, j3, j4, j5

SomeJobs == {j1, j2, j3, j4, j5}
TwoRoots == {j1, j2}
OneLater == {j5}

\* j1 leads to j3 and j4.
Crawl == [j \in SomeJobs |-> IF j = j1 THEN <<j3, j4>> ELSE <<>>]

=============================================================================
