------------------------------ MODULE TaskPool ------------------------------
(***************************************************************************)
(* The task thread pool of 0001_svn_dus/my_demo_code/pthread_test.  Three  *)
(* locks guard three things: task_lock the list and task_num,              *)
(* curr_running_task_num_lock that counter, and task_cond_lock nothing but *)
(* the condition variable: a worker waits without looking at the list or   *)
(* at exit, so a broadcast that comes while it is on its way to the wait   *)
(* is lost.  No critical section blocks inside except the wait, so each    *)
(* is one step and the locks need no variables.                            *)
(***************************************************************************)
EXTENDS Integers, FiniteSets, Sequences, SequencesExt

CONSTANTS
    ThreadNum,  \* the argument of thread_pool_create
    Callers,    \* the threads that add tasks
    Tasks,      \* the tasks they may add, each once
    NoTask

ASSUME TaskPoolAssumption ==
    /\ ThreadNum \in Nat \ {0}
    /\ NoTask \notin Tasks

Workers == 1..ThreadNum

VARIABLES
    tasks,      \* pool->tasks
    taskNum,    \* pool->task_num
    running,    \* pool->curr_running_task_num
    exit,       \* pool->exit
    threadNum,  \* pool->thread_num: the threads created so far
    pc,         \* where each worker is
    held,       \* the task a worker popped
    caller,     \* the task whose broadcast a caller still owes, or NoTask
    mpc,        \* where the thread that owns the pool is
    drain,      \* that thread polls the counters before it releases the pool
    added,      \* history: tasks whose add returned
    done,       \* history: tasks whose callback returned
    freed       \* history: tasks thread_pool_release freed

poolVars    == <<tasks, taskNum, running, exit, threadNum>>
workerVars  == <<pc, held>>
historyVars == <<added, done, freed>>
vars == <<poolVars, workerVars, caller, mpc, drain, historyVars>>

Init ==
    /\ tasks = <<>> /\ taskNum = 0 /\ running = 0 /\ exit = FALSE
    /\ threadNum = 0
    /\ pc = [w \in Workers |-> "none"]
    /\ held = [w \in Workers |-> NoTask]
    /\ caller = [c \in Callers |-> NoTask]
    /\ mpc = "create" /\ drain = FALSE
    /\ added = {} /\ done = {} /\ freed = {}

-----------------------------------------------------------------------------
(* thread_pool_create.                                                     *)

CreateThread ==
    /\ mpc = "create"
    /\ threadNum < ThreadNum
    /\ threadNum' = threadNum + 1
    /\ pc' = [pc EXCEPT ![threadNum + 1] = "top"]
    /\ UNCHANGED <<tasks, taskNum, running, exit, held, caller, mpc, drain, historyVars>>

\* pthread_create fails: the threads there are are released with the pool.
CreateFails ==
    /\ mpc = "create"
    /\ threadNum < ThreadNum
    /\ mpc' = "release"
    /\ UNCHANGED <<poolVars, workerVars, caller, drain, historyVars>>

CreateReturn ==
    /\ mpc = "create"
    /\ threadNum = ThreadNum
    /\ mpc' = "open"
    /\ UNCHANGED <<poolVars, workerVars, caller, drain, historyVars>>

-----------------------------------------------------------------------------
(* thread_pool_add_task: link and count under task_lock, then broadcast    *)
(* under task_cond_lock.                                                   *)

Broadcast == pc' = [w \in Workers |-> IF pc[w] = "wait" THEN "woken" ELSE pc[w]]

AddTask(c, t) ==
    /\ mpc = "open"
    /\ caller[c] = NoTask
    /\ t \notin added /\ \A d \in Callers : caller[d] # t
    /\ tasks' = Append(tasks, t)
    /\ taskNum' = taskNum + 1
    /\ caller' = [caller EXCEPT ![c] = t]
    /\ UNCHANGED <<running, exit, threadNum, workerVars, mpc, drain, historyVars>>

AddBroadcast(c) ==
    /\ caller[c] # NoTask
    /\ Broadcast
    /\ added' = added \cup {caller[c]}
    /\ caller' = [caller EXCEPT ![c] = NoTask]
    /\ UNCHANGED <<poolVars, held, mpc, drain, done, freed>>

-----------------------------------------------------------------------------
(* thread_pool_func.                                                       *)

Goto(w, from, to) == pc[w] = from /\ pc' = [pc EXCEPT ![w] = to]

\* Mutant: the loop does not look at exit.
TestNothing(w) ==
    /\ Goto(w, "top", "lock")
    /\ UNCHANGED <<poolVars, held, caller, mpc, drain, historyVars>>

\* while (!pool->exit), read without a lock.
TestExit(w) ==
    /\ Goto(w, "top", IF exit THEN "ended" ELSE "lock")
    /\ UNCHANGED <<poolVars, held, caller, mpc, drain, historyVars>>

\* The worker takes task_cond_lock and waits, whatever is on the list.
Wait(w) ==
    /\ Goto(w, "lock", "wait")
    /\ UNCHANGED <<poolVars, held, caller, mpc, drain, historyVars>>

SpuriousWakeup(w) ==
    /\ Goto(w, "wait", "woken")
    /\ UNCHANGED <<poolVars, held, caller, mpc, drain, historyVars>>

Woken(w) ==
    /\ Goto(w, "woken", IF exit THEN "ended" ELSE "pop")
    /\ UNCHANGED <<poolVars, held, caller, mpc, drain, historyVars>>

\* Mutant: the count goes down before the list is looked at.
FindNoneCounted(w) ==
    /\ tasks = <<>>
    /\ Goto(w, "pop", "top")
    /\ taskNum' = taskNum - 1
    /\ UNCHANGED <<tasks, running, exit, threadNum, held, caller, mpc, drain, historyVars>>

\* RETRY: with no task left the worker goes back to the top of the loop.
FindNone(w) ==
    /\ tasks = <<>>
    /\ Goto(w, "pop", "top")
    /\ UNCHANGED <<poolVars, held, caller, mpc, drain, historyVars>>

\* Mutant: the task is not unlinked.
PopNoUnlink(w) ==
    /\ tasks # <<>>
    /\ Goto(w, "pop", "popped")
    /\ held' = [held EXCEPT ![w] = Head(tasks)]
    /\ UNCHANGED <<poolVars, caller, mpc, drain, historyVars>>

PopTask(w) ==
    /\ tasks # <<>>
    /\ Goto(w, "pop", "popped")
    /\ held' = [held EXCEPT ![w] = Head(tasks)]
    /\ tasks' = Tail(tasks)
    /\ taskNum' = taskNum - 1
    /\ UNCHANGED <<running, exit, threadNum, caller, mpc, drain, historyVars>>

CountRunning(w) ==
    /\ Goto(w, "popped", "run")
    /\ running' = running + 1
    /\ UNCHANGED <<tasks, taskNum, exit, threadNum, held, caller, mpc, drain, historyVars>>

\* Mutant: the worker does not retry.
RunOneTask(w) ==
    /\ Goto(w, "run", "top")
    /\ running' = running - 1
    /\ done' = done \cup {held[w]}
    /\ held' = [held EXCEPT ![w] = NoTask]
    /\ UNCHANGED <<tasks, taskNum, exit, threadNum, caller, mpc, drain, added, freed>>

\* The callback returns, the counter goes down, and the worker retries; it
\* does not look at exit before the list is empty.
RunTask(w) ==
    /\ Goto(w, "run", "pop")
    /\ running' = running - 1
    /\ done' = done \cup {held[w]}
    /\ held' = [held EXCEPT ![w] = NoTask]
    /\ UNCHANGED <<tasks, taskNum, exit, threadNum, caller, mpc, drain, added, freed>>

-----------------------------------------------------------------------------
(* The owner: main's two polling loops and thread_pool_release.            *)

\* No task is added any more; d says whether the owner polls, as main does.
Close(d) ==
    /\ mpc = "open"
    /\ \A c \in Callers : caller[c] = NoTask
    /\ drain' = d
    /\ mpc' = IF d THEN "pollTasks" ELSE "release"
    /\ UNCHANGED <<poolVars, workerVars, caller, historyVars>>

SeeNoTask ==
    /\ mpc = "pollTasks"
    /\ taskNum = 0
    /\ mpc' = "pollRunning"
    /\ UNCHANGED <<poolVars, workerVars, caller, drain, historyVars>>

SeeNoneRunning ==
    /\ mpc = "pollRunning"
    /\ running = 0
    /\ mpc' = "release"
    /\ UNCHANGED <<poolVars, workerVars, caller, drain, historyVars>>

SetExit ==
    /\ mpc = "release"
    /\ exit' = TRUE
    /\ mpc' = "broadcast"
    /\ UNCHANGED <<tasks, taskNum, running, threadNum, workerVars, caller, drain, historyVars>>

ExitBroadcast ==
    /\ mpc = "broadcast"
    /\ Broadcast
    /\ mpc' = "join"
    /\ UNCHANGED <<poolVars, held, caller, drain, historyVars>>

\* Mutant: the last thread is not joined.
JoinAllButLast ==
    /\ mpc = "join"
    /\ \A w \in 1..(threadNum - 1) : pc[w] = "ended"
    /\ freed' = freed \cup ToSet(tasks)
    /\ tasks' = <<>>
    /\ mpc' = "gone"
    /\ UNCHANGED <<taskNum, running, exit, threadNum, workerVars, caller, drain, added, done>>

\* Every thread counted in thread_num is joined; then the locks, the tasks
\* left and the pool are freed.
JoinAndFree ==
    /\ mpc = "join"
    /\ \A w \in 1..threadNum : pc[w] = "ended"
    /\ freed' = freed \cup ToSet(tasks)
    /\ tasks' = <<>>
    /\ mpc' = "gone"
    /\ UNCHANGED <<taskNum, running, exit, threadNum, workerVars, caller, drain, added, done>>

-----------------------------------------------------------------------------
OwnerStep ==
    \/ CreateThread \/ CreateReturn
    \/ SeeNoTask \/ SeeNoneRunning
    \/ SetExit \/ ExitBroadcast \/ JoinAndFree

WorkerStep(w) ==
    \/ TestExit(w) \/ Wait(w) \/ Woken(w)
    \/ FindNone(w) \/ PopTask(w) \/ CountRunning(w) \/ RunTask(w)

Next ==
    \/ OwnerStep
    \/ CreateFails
    \/ \E d \in BOOLEAN : Close(d)
    \/ \E c \in Callers : AddBroadcast(c) \/ \E t \in Tasks : AddTask(c, t)
    \/ \E w \in Workers : WorkerStep(w) \/ SpuriousWakeup(w)

Spec == Init /\ [][Next]_vars

\* Threads that can run do; callbacks return.  Nobody has to add a task or
\* release the pool, and no wait has to return by itself.
Fairness ==
    /\ WF_vars(OwnerStep)
    /\ \A c \in Callers : WF_vars(AddBroadcast(c))
    /\ \A w \in Workers : WF_vars(WorkerStep(w))

FairSpec == Spec /\ Fairness

-----------------------------------------------------------------------------
(* Properties.                                                             *)

\* The variables hold what their C counterparts can hold; the two counters
\* never go below zero.
TypeOK ==
    /\ tasks \in Seq(Tasks)
    /\ taskNum \in Nat /\ running \in Nat
    /\ exit \in BOOLEAN /\ drain \in BOOLEAN
    /\ threadNum \in 0..ThreadNum
    /\ pc \in [Workers -> {"none", "top", "lock", "wait", "woken", "pop", "popped", "run", "ended"}]
    /\ held \in [Workers -> Tasks \cup {NoTask}]
    /\ caller \in [Callers -> Tasks \cup {NoTask}]
    /\ mpc \in {"create", "open", "pollTasks", "pollRunning", "release", "broadcast", "join", "gone"}
    /\ added \subseteq Tasks /\ done \subseteq Tasks /\ freed \subseteq Tasks

Held == {held[w] : w \in Workers} \ {NoTask}

\* When main polls both counters before it releases the pool, every task it
\* added has been run by the time the pool is freed, although the counters
\* can both be 0 while a task is popped and not yet counted as running: the
\* joins make up for it.
DrainedPoolIsDone == (mpc = "gone" /\ drain) => added \subseteq done /\ freed = {}

\* No worker is left to touch the pool when it is freed, also when creation
\* failed half-way.
NoWorkerAfterFree == mpc = "gone" => \A w \in Workers : pc[w] \in {"none", "ended"}

\* The pool is a job service: FIFO, at most one run per task, a popped task is
\* run to its end, only tasks nobody popped are freed.
Service == INSTANCE JobService WITH
              Jobs <- Tasks, waiting <- tasks, running <- Held

ImplementsJobService == Service!Spec

\* A worker that is past its wait empties the list before it waits again or
\* ends, so no task stays behind an awake worker.
AwakeWorkerDrains ==
    \A t \in Tasks :
       (t \in ToSet(tasks) /\ \E w \in Workers : pc[w] \in {"pop", "popped", "run"})
          ~> (t \in done)

\* thread_pool_release returns if its broadcast finds every worker either in
\* its wait or not on the way to it.
ReleaseReturnsUnlessMissed ==
    (mpc = "join" /\ \A w \in Workers : pc[w] \notin {"lock", "wait"}) ~> (mpc = "gone")

\* A task that was added is run, unless the pool is released first.
AddedTasksRun == \A t \in Tasks : (t \in added) ~> (t \in done \cup freed)
=============================================================================
