----------------------------- MODULE MCJobPool ------------------------------
(* Instances of the job pool for TLC.                                       *)
EXTENDS JobPool

CONSTANTS w1, w2, c1, c2, j1, j2

TwoWorkers == {w1, w2}
TwoClients == {c1, c2}
TwoJobs    == {j1, j2}
=============================================================================
