----------------------------- MODULE MCTaskPool -----------------------------
(* Instances of the task pool for TLC.                                      *)
EXTENDS TaskPool

CONSTANTS c1, c2, t1, t2, t3

OneCaller  == {c1}
TwoCallers == {c1, c2}
TwoTasks   == {t1, t2}
ThreeTasks == {t1, t2, t3}
=============================================================================
