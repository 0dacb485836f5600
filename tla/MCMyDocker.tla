----------------------------- MODULE MCMyDocker -----------------------------
(* Instances of mydocker for TLC.                                           *)
EXTENDS MyDocker, TLC

CONSTANTS r1, r2, data, logs

TwoRuns    == {r1, r2}
TwoVolumes == {data, logs}
Symmetric  == Permutations(Runs) \cup Permutations(Volumes)
=============================================================================
