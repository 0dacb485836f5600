----------------------------- MODULE JobService -----------------------------
(***************************************************************************)
(* What a job pool promises its clients, without threads, locks or         *)
(* counters: jobs wait in one FIFO line, each is started at most once and  *)
(* only from the head of the line, a started job is never freed, and a     *)
(* freed job is never started.                                             *)
(***************************************************************************)
EXTENDS Sequences, SequencesExt

CONSTANT Jobs

VARIABLES waiting,   \* the jobs handed over and not yet started, in order
          running,   \* the jobs some thread is executing
          done,      \* the jobs that were executed to the end
          freed      \* the jobs discarded without being executed

vars == <<waiting, running, done, freed>>

Init ==
    /\ waiting = <<>>
    /\ running = {}
    /\ done = {}
    /\ freed = {}

Known == ToSet(waiting) \cup running \cup done \cup freed

\* A job the service has never seen joins the end of the line.
Submit(j) ==
    /\ j \notin Known
    /\ waiting' = Append(waiting, j)
    /\ UNCHANGED <<running, done, freed>>

\* The oldest waiting job starts.
Start ==
    /\ waiting # <<>>
    /\ running' = running \cup {Head(waiting)}
    /\ waiting' = Tail(waiting)
    /\ UNCHANGED <<done, freed>>

Finish(j) ==
    /\ j \in running
    /\ running' = running \ {j}
    /\ done' = done \cup {j}
    /\ UNCHANGED <<waiting, freed>>

\* Shutting down may throw away everything that has not started.
Discard ==
    /\ freed' = freed \cup ToSet(waiting)
    /\ waiting' = <<>>
    /\ UNCHANGED <<running, done>>

Next ==
    \/ \E j \in Jobs : Submit(j) \/ Finish(j)
    \/ Start
    \/ Discard

Spec == Init /\ [][Next]_vars
=============================================================================
