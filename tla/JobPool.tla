------------------------------ MODULE JobPool -------------------------------
(***************************************************************************)
(* The job thread pool of 0000_base_learn/C语言知识/threadpool.  Worker    *)
(* threads take jobs from one linked list under job_queue_mutex and sleep  *)
(* on job_queue_cond; clients add jobs and threads from threads of their   *)
(* own; the main thread creates the pool and destroys it by setting the    *)
(* status, closing the job queue (job_num = -1), and cancelling and        *)
(* joining the workers one by one.                                         *)
(*                                                                         *)
(* A critical section with no blocking call in it is one step.  The job    *)
(* mutex is nevertheless a variable: pthread_cond_wait and printf are      *)
(* cancellation points inside the worker's critical section, no cleanup    *)
(* handler is pushed, and a worker cancelled there dies owning the mutex.  *)
(***************************************************************************)
EXTENDS Integers, FiniteSets, Sequences, SequencesExt

CONSTANTS
    Workers,        \* thread ids; once all are used pthread_create fails
    Clients,        \* threads that call the API besides main
    Jobs,           \* the jobs clients may add, each once
    PoolSize,       \* the argument of thread_pool_init
    MaxGrow,        \* largest argument of add_thread_to_thread_queue
    WaitModes,      \* the arguments thread_pool_destroy may be called with
    NoOne           \* no owner, no job, no thread

ASSUME JobPoolAssumption ==
    /\ PoolSize \in Nat
    /\ MaxGrow \in Nat
    /\ WaitModes \subseteq {0, 1}
    /\ NoOne \notin Workers
    /\ NoOne \notin Jobs

VARIABLES
    jobs,       \* job_queue.head .. tail
    jobNum,     \* job_queue.job_num
    jobMutex,   \* owner of job_queue_mutex between steps
    threads,    \* thread_queue.head .. tail (thread_num is its length)
    status,     \* thread_pool.status
    pc,         \* where each worker is
    cur,        \* the job a worker took
    cancel,     \* pthread_cancel was called on the worker
    client,     \* the call each client is in
    mpc,        \* where main is
    waitArg,    \* the argument of thread_pool_destroy
    done,       \* history: jobs whose function returned
    freed,      \* history: jobs job_queue_destroy(0) freed
    accepted,   \* history: jobs whose add returned 0
    rejected,   \* history: jobs whose add returned -1
    late        \* history: jobs linked after destroy had closed the queue

queueVars   == <<jobs, jobNum>>
workerVars  == <<pc, cur, cancel>>
mainVars    == <<mpc, waitArg>>
historyVars == <<done, freed, accepted, rejected, late>>
vars == <<queueVars, jobMutex, threads, status, workerVars, client,
          mainVars, historyVars>>

Idle == [op |-> "idle"]
Growing(n) == [op |-> "grow", num |-> n]   \* n threads still to create
Calls ==
    {Idle} \cup [op : {"enqueue", "broadcast"}, job : Jobs]
           \cup [op : {"grow"}, num : 1..MaxGrow]

Init ==
    /\ jobs = <<>> /\ jobNum = 0 /\ jobMutex = NoOne
    /\ threads = <<>> /\ status = "active"
    /\ pc = [w \in Workers |-> "none"]
    /\ cur = [w \in Workers |-> NoOne]
    /\ cancel = [w \in Workers |-> FALSE]
    /\ client = [c \in Clients |-> Idle]
    /\ mpc = "init" /\ waitArg = 0
    /\ done = {} /\ freed = {} /\ accepted = {} /\ rejected = {} /\ late = {}

-----------------------------------------------------------------------------
(* The thread queue.                                                       *)

ThreadQueueLocked == mpc \in {"cancel", "join"}

\* __add_thread_to_thread_queue when pthread_create succeeds: the thread is
\* running before it is linked; both happen under thread_queue_mutex.
CreateThread(w) ==
    /\ pc[w] = "none"
    /\ pc' = [pc EXCEPT ![w] = "lock"]
    /\ threads' = Append(threads, w)
    /\ UNCHANGED <<cur, cancel>>

CreateFails == \A w \in Workers : pc[w] # "none"

\* thread_pool_init: one turn of the loop that adds PoolSize threads.
InitThread ==
    /\ mpc = "init"
    /\ Len(threads) < PoolSize
    /\ \E w \in Workers : CreateThread(w)
    /\ UNCHANGED <<queueVars, jobMutex, status, client, mainVars, historyVars>>

\* thread_pool_init returns; its callers ignore a -1 and use the pool.
InitReturn ==
    /\ mpc = "init"
    /\ Len(threads) = PoolSize \/ CreateFails
    /\ mpc' = "up"
    /\ UNCHANGED <<queueVars, jobMutex, threads, status, workerVars, client,
                   waitArg, historyVars>>

\* A client's call begins once the pool exists, before destroy or during it.
MayCall(c) == client[c] = Idle /\ mpc # "init"

\* add_thread_to_thread_queue: the status is read once, under the read lock.
GrowCheck(c, n) ==
    /\ MayCall(c)
    /\ status = "active"
    /\ client' = [client EXCEPT ![c] = Growing(n)]
    /\ UNCHANGED <<queueVars, jobMutex, threads, status, workerVars,
                   mainVars, historyVars>>

\* Mutant: the countdown of the loop runs one turn too far.
GrowThreadPastEnd(c) ==
    /\ client[c].op = "grow"
    /\ ~ThreadQueueLocked
    /\ \E w \in Workers : CreateThread(w)
    /\ client' = [client EXCEPT ![c] =
                    IF @.num = 0 THEN Idle ELSE Growing(@.num - 1)]
    /\ UNCHANGED <<queueVars, jobMutex, status, mainVars, historyVars>>

\* One turn of its loop; a failed pthread_create ends the call with -1.
GrowThread(c) ==
    /\ client[c].op = "grow"
    /\ ~ThreadQueueLocked
    /\ \/ /\ \E w \in Workers : CreateThread(w)
          /\ client' = [client EXCEPT ![c] =
                          IF @.num = 1 THEN Idle ELSE Growing(@.num - 1)]
       \/ /\ CreateFails
          /\ client' = [client EXCEPT ![c] = Idle]
          /\ UNCHANGED <<threads, workerVars>>
    /\ UNCHANGED <<queueVars, jobMutex, status, mainVars, historyVars>>

-----------------------------------------------------------------------------
(* The job queue.                                                          *)

Broadcast == pc' = [w \in Workers |-> IF pc[w] = "wait" THEN "relock" ELSE pc[w]]

Adding(c) == client[c].op \in {"enqueue", "broadcast"}

Fresh(j) ==
    /\ j \notin accepted \cup rejected
    /\ \A c \in Clients : Adding(c) => client[c].job # j

\* add_job_to_job_queue: the status check, under the read lock.
AddCheck(c, j) ==
    /\ MayCall(c)
    /\ Fresh(j)
    /\ \/ /\ status = "active"
          /\ client' = [client EXCEPT ![c] = [op |-> "enqueue", job |-> j]]
          /\ UNCHANGED rejected
       \/ /\ status # "active"
          /\ rejected' = rejected \cup {j}
          /\ UNCHANGED client
    /\ UNCHANGED <<queueVars, jobMutex, threads, status, workerVars, mainVars,
                   done, freed, accepted, late>>

\* job_queue_destroy has stored the -1.
Closed == mpc \in {"broadcast", "cancel", "join", "down"}

\* ... the link and the count, under the job mutex and no longer under the
\* status lock, so that destroy may have closed the queue meanwhile ...
AddEnqueue(c) ==
    /\ client[c].op = "enqueue"
    /\ jobMutex = NoOne
    /\ jobs' = Append(jobs, client[c].job)
    /\ jobNum' = jobNum + 1
    /\ client' = [client EXCEPT ![c].op = "broadcast"]
    /\ late' = late \cup (IF Closed THEN {client[c].job} ELSE {})
    /\ UNCHANGED <<jobMutex, threads, status, workerVars, mainVars,
                   done, freed, accepted, rejected>>

\* Mutant: add_job_to_job_queue returns without the broadcast.
AddNoBroadcast(c) ==
    /\ client[c].op = "broadcast"
    /\ accepted' = accepted \cup {client[c].job}
    /\ client' = [client EXCEPT ![c] = Idle]
    /\ UNCHANGED <<queueVars, jobMutex, threads, status, workerVars, mainVars,
                   done, freed, rejected, late>>

\* ... and the broadcast, after the unlock.
AddBroadcast(c) ==
    /\ client[c].op = "broadcast"
    /\ Broadcast
    /\ accepted' = accepted \cup {client[c].job}
    /\ client' = [client EXCEPT ![c] = Idle]
    /\ UNCHANGED <<queueVars, jobMutex, threads, status, cur, cancel, mainVars,
                   done, freed, rejected, late>>

-----------------------------------------------------------------------------
(* thread_work.                                                            *)

\* Mutant: the job is unlinked and not counted.
GetJobUncounted(w) ==
    IF jobs = <<>>
    THEN cur' = [cur EXCEPT ![w] = NoOne] /\ UNCHANGED queueVars
    ELSE /\ cur' = [cur EXCEPT ![w] = Head(jobs)]
         /\ jobs' = Tail(jobs)
         /\ UNCHANGED jobNum

\* Mutant: the job is run and left on the list.
GetJobKeepsLink(w) ==
    IF jobs = <<>>
    THEN cur' = [cur EXCEPT ![w] = NoOne] /\ UNCHANGED queueVars
    ELSE cur' = [cur EXCEPT ![w] = Head(jobs)] /\ UNCHANGED queueVars

\* Mutant: the job is taken from the tail of the list.
GetJobFromTail(w) ==
    IF jobs = <<>>
    THEN cur' = [cur EXCEPT ![w] = NoOne] /\ UNCHANGED queueVars
    ELSE /\ cur' = [cur EXCEPT ![w] = Last(jobs)]
         /\ jobs' = Front(jobs)
         /\ jobNum' = jobNum - 1

\* get_job_from_job_queue: no job and no count change when head is NULL.
GetJob(w) ==
    IF jobs = <<>>
    THEN cur' = [cur EXCEPT ![w] = NoOne] /\ UNCHANGED queueVars
    ELSE /\ cur' = [cur EXCEPT ![w] = Head(jobs)]
         /\ jobs' = Tail(jobs)
         /\ jobNum' = jobNum - 1

\* The worker has the mutex, at the top of the loop or back from the wait;
\* job_num is not 0, also when it is -1: it leaves with a job or without.
Take(w) ==
    /\ pc[w] \in {"lock", "relock"}
    /\ jobMutex = NoOne
    /\ jobNum # 0
    /\ GetJob(w)
    /\ pc' = [pc EXCEPT ![w] = "run"]
    /\ UNCHANGED <<jobMutex, threads, status, cancel, client, mainVars, historyVars>>

\* job_num is 0 and nobody asked the worker to stop: it waits.
Sleep(w) ==
    /\ pc[w] \in {"lock", "relock"}
    /\ jobMutex = NoOne
    /\ jobNum = 0
    /\ ~cancel[w]
    /\ pc' = [pc EXCEPT ![w] = "wait"]
    /\ UNCHANGED <<queueVars, jobMutex, threads, status, cur, cancel, client,
                   mainVars, historyVars>>

\* A cancel request is acted on inside the critical section: on entry to
\* pthread_cond_wait or while blocked in it (the mutex is taken again
\* first), or in the printf that follows a wake-up, whatever job_num is by
\* then: a printf that comes to write() is a cancellation point, as in glibc.
\* The mutex stays locked.
DieHoldingMutex(w) ==
    /\ cancel[w]
    /\ jobMutex = NoOne
    /\ \/ pc[w] = "lock" /\ jobNum = 0
       \/ pc[w] \in {"wait", "relock"}
    /\ pc' = [pc EXCEPT ![w] = "dead"]
    /\ jobMutex' = w
    /\ UNCHANGED <<queueVars, threads, status, cur, cancel, client, mainVars,
                   historyVars>>

\* pthread_cond_wait may return without a broadcast.
SpuriousWakeup(w) ==
    /\ pc[w] = "wait"
    /\ pc' = [pc EXCEPT ![w] = "relock"]
    /\ UNCHANGED <<queueVars, jobMutex, threads, status, cur, cancel, client,
                   mainVars, historyVars>>

\* The job (if any) is run to its end with cancellation disabled; then
\* pthread_testcancel ends a cancelled worker, and the others loop.
Run(w) ==
    /\ pc[w] = "run"
    /\ done' = done \cup ({cur[w]} \ {NoOne})
    /\ cur' = [cur EXCEPT ![w] = NoOne]
    /\ pc' = [pc EXCEPT ![w] = IF cancel[w] THEN "dead" ELSE "lock"]
    /\ UNCHANGED <<queueVars, jobMutex, threads, status, cancel, client, mainVars,
                   freed, accepted, rejected, late>>

-----------------------------------------------------------------------------
(* thread_pool_destroy.                                                    *)

DestroyBegin(wait) ==
    /\ mpc = "up"
    /\ status' = "destroying"
    /\ waitArg' = wait
    /\ mpc' = "close"
    /\ UNCHANGED <<queueVars, jobMutex, threads, workerVars, client, historyVars>>

\* Mutant: the queue is emptied and not marked closed.
CloseQueueUnmarked ==
    /\ mpc = "close"
    /\ jobMutex = NoOne
    /\ waitArg = 1 => jobNum <= 0
    /\ IF waitArg = 0
       THEN freed' = freed \cup ToSet(jobs) /\ jobs' = <<>> /\ jobNum' = 0
       ELSE UNCHANGED <<jobs, freed, jobNum>>
    /\ mpc' = "broadcast"
    /\ UNCHANGED <<jobMutex, threads, status, workerVars, client, waitArg, done,
                   accepted, rejected, late>>

\* Mutant: the poll stops one job early.
CloseQueueEarly ==
    /\ mpc = "close"
    /\ jobMutex = NoOne
    /\ waitArg = 1 => jobNum <= 1
    /\ IF waitArg = 0
       THEN freed' = freed \cup ToSet(jobs) /\ jobs' = <<>>
       ELSE UNCHANGED <<jobs, freed>>
    /\ jobNum' = -1
    /\ mpc' = "broadcast"
    /\ UNCHANGED <<jobMutex, threads, status, workerVars, client, waitArg, done,
                   accepted, rejected, late>>

\* job_queue_destroy: with wait = 0 it frees the list; with wait = 1 it polls
\* until job_num is no longer positive.  Then job_num = -1.
CloseQueue ==
    /\ mpc = "close"
    /\ jobMutex = NoOne
    /\ waitArg = 1 => jobNum <= 0
    /\ IF waitArg = 0
       THEN freed' = freed \cup ToSet(jobs) /\ jobs' = <<>>
       ELSE UNCHANGED <<jobs, freed>>
    /\ jobNum' = -1
    /\ mpc' = "broadcast"
    /\ UNCHANGED <<jobMutex, threads, status, workerVars, client, waitArg, done,
                   accepted, rejected, late>>

\* Mutant: the sleeping workers are not woken before they are cancelled.
CloseNoBroadcast ==
    /\ mpc = "broadcast"
    /\ mpc' = "cancel"
    /\ UNCHANGED <<queueVars, jobMutex, threads, status, workerVars, client,
                   waitArg, historyVars>>

CloseBroadcast ==
    /\ mpc = "broadcast"
    /\ Broadcast
    /\ mpc' = "cancel"
    /\ UNCHANGED <<queueVars, jobMutex, threads, status, cur, cancel, client,
                   waitArg, historyVars>>

\* del_thread_from_thread_queue(-1) holds thread_queue_mutex throughout and
\* cancels and joins the threads in list order.
CancelHead ==
    /\ mpc = "cancel"
    /\ threads # <<>>
    /\ cancel' = [cancel EXCEPT ![Head(threads)] = TRUE]
    /\ mpc' = "join"
    /\ UNCHANGED <<queueVars, jobMutex, threads, status, pc, cur, client, waitArg,
                   historyVars>>

\* Mutant: the thread is cancelled and not joined.
ForgetHead ==
    /\ mpc = "join"
    /\ threads' = Tail(threads)
    /\ mpc' = "cancel"
    /\ UNCHANGED <<queueVars, jobMutex, status, workerVars, client, waitArg,
                   historyVars>>

JoinHead ==
    /\ mpc = "join"
    /\ pc[Head(threads)] = "dead"
    /\ threads' = Tail(threads)
    /\ mpc' = "cancel"
    /\ UNCHANGED <<queueVars, jobMutex, status, workerVars, client, waitArg,
                   historyVars>>

DestroyReturn ==
    /\ mpc = "cancel"
    /\ threads = <<>>
    /\ mpc' = "down"
    /\ UNCHANGED <<queueVars, jobMutex, threads, status, workerVars, client,
                   waitArg, historyVars>>

-----------------------------------------------------------------------------
MainStep ==
    \/ InitThread \/ InitReturn
    \/ CloseQueue \/ CloseBroadcast \/ CancelHead \/ JoinHead \/ DestroyReturn

ClientStep(c) == GrowThread(c) \/ AddEnqueue(c) \/ AddBroadcast(c)

WorkerStep(w) == Take(w) \/ Sleep(w) \/ DieHoldingMutex(w) \/ Run(w)

Next ==
    \/ MainStep
    \/ \E wait \in WaitModes : DestroyBegin(wait)
    \/ \E c \in Clients :
          \/ ClientStep(c)
          \/ \E j \in Jobs : AddCheck(c, j)
          \/ \E n \in 1..MaxGrow : GrowCheck(c, n)
    \/ \E w \in Workers : WorkerStep(w) \/ SpuriousWakeup(w)

Spec == Init /\ [][Next]_vars

\* Every thread that can run eventually does, job functions return, and a
\* thread is not kept out of a free mutex for ever.  Nobody has to call the
\* API, and a wait need not return spuriously.
Fairness ==
    /\ WF_vars(MainStep)
    /\ \A c \in Clients : WF_vars(ClientStep(c))
    /\ \A w \in Workers : WF_vars(WorkerStep(w))

FairSpec == Spec /\ Fairness

-----------------------------------------------------------------------------
(* Properties.                                                             *)

\* The variables hold what their C counterparts can hold.
TypeOK ==
    /\ jobs \in Seq(Jobs)
    /\ jobNum \in Int
    /\ jobMutex \in Workers \cup {NoOne}
    /\ threads \in Seq(Workers) /\ (mpc = "join" => threads # <<>>)
    /\ status \in {"active", "destroying"}
    /\ pc \in [Workers -> {"none", "lock", "wait", "relock", "run", "dead"}]
    /\ cur \in [Workers -> Jobs \cup {NoOne}]
    /\ cancel \in [Workers -> BOOLEAN]
    /\ client \in [Clients -> Calls]
    /\ mpc \in {"init", "up", "close", "broadcast", "cancel", "join", "down"}
    /\ waitArg \in {0, 1}
    /\ done \subseteq Jobs /\ freed \subseteq Jobs
    /\ accepted \subseteq Jobs /\ rejected \subseteq Jobs /\ late \subseteq Jobs

\* job_num counts the list until the queue is closed and is one below its
\* length ever after: the sentinel -1 is not sticky, an add that passed the
\* status check earlier brings it back to 0 with a job on the list.
CountMatches == jobNum = Len(jobs) - (IF Closed THEN 1 ELSE 0)

BroadcastPending ==
    \/ mpc = "broadcast"
    \/ \E c \in Clients : client[c].op = "broadcast"

\* The broadcast comes after the unlock, yet no worker sleeps through work:
\* while job_num is not 0 a worker waits only if a broadcast is on its way.
NoSleeperMissesWork ==
    (jobNum # 0 /\ ~BroadcastPending) => \A w \in Workers : pc[w] # "wait"

Held == {cur[w] : w \in Workers} \ {NoOne}

\* The jobs that have left their client's hands.
Handed == ToSet(jobs) \cup Held \cup done \cup freed

ListedOnce == IsInjective(jobs)
HeldOnce ==
    /\ \A v, w \in Workers : cur[v] = cur[w] /\ cur[v] # NoOne => v = w
    /\ \A w \in Workers : cur[w] # NoOne => pc[w] = "run"
    /\ \A w \in Workers : cur[w] \notin ToSet(jobs)
AddedOnce ==
    \A c, d \in Clients :
       Adding(c) /\ Adding(d) /\ client[c].job = client[d].job => c = d
StillToHand ==
    \A c \in Clients : client[c].op = "enqueue" => client[c].job \notin Handed
HandedKnown ==
    \A j \in Handed :
       j \in accepted \/ \E c \in Clients : client[c].op = "broadcast" /\ client[c].job = j

\* A job belongs to one place: to the client that is adding it, to one link
\* of the list, to one worker, or to the past; what has left a client's hands
\* never comes back to one.
OneOwnerPerJob ==
    ListedOnce /\ HeldOnce /\ AddedOnce /\ StillToHand /\ HandedKnown

\* job_queue_destroy marks the queue closed and wakes everybody before anybody
\* is cancelled, so that no worker is cancelled in pthread_cond_wait or on its
\* way into it, unless an add came in after the mark.  What is left is the
\* printf of a worker that has just been woken (thread-pool.c:212).
NoSleeperCancelled ==
    late = {} => \A w \in Workers :
        cancel[w] => pc[w] # "wait" /\ (pc[w] \in {"lock", "relock"} => jobNum # 0)

\* del_thread_from_thread_queue(-1) deletes all threads: when destroy has
\* returned, a worker that lives is one that a client which had passed the
\* status check has linked since.
NoThreadOutlivesPool ==
    mpc = "down" => \A w \in Workers : pc[w] \in {"none", "dead"} \/ w \in ToSet(threads)

\* thread_pool_destroy(1) completes every accepted job that was on the list
\* when it closed the queue, however adds, grows and deaths interleave with it.
WaitCompletesJobs == (mpc = "down" /\ waitArg = 1) => accepted \ late \subseteq done

\* The pool is a job service: FIFO starts, at most one run per job, a job
\* that was taken is run to its end whatever happens to its worker.
Service ==
    INSTANCE JobService WITH
        waiting <- jobs,
        running <- Held

ImplementsJobService == Service!Spec

\* thread_pool_destroy(0) destroys the pool immediately (example.c:46) and
\* returns 0 or -1: it returns.
DestroyReturns == (mpc = "close") ~> (mpc = "down")

\* The only thing that can keep it from returning is a worker that died with
\* job_queue_mutex in its hands.
DestroyReturnsUnlessOrphaned == (mpc = "close") ~> (mpc = "down" \/ jobMutex # NoOne)

\* A job an add accepted is run, unless destroy(0) frees it first or it came
\* after the queue was closed.
AcceptedJobsFinish == \A j \in Jobs : (j \in accepted \ late) ~> (j \in done \cup freed)
=============================================================================
