--------------------------- MODULE TaskPool_proofs --------------------------
(***************************************************************************)
(* What holds of the task pool for any number of threads, callers and      *)
(* tasks.  Its locks guard less than one would expect, so most of this is  *)
(* about what the joins of thread_pool_release make up for.                *)
(***************************************************************************)
EXTENDS TaskPool, FiniteSetTheorems, TLAPS

LEMMA SeqFacts ==
    ASSUME NEW S, NEW s \in Seq(S)
    PROVE  /\ ToSet(s) \subseteq S /\ Len(s) \in Nat /\ ToSet(<<>>) = {}
           /\ s = <<>> <=> Len(s) = 0
           /\ \A e \in S : Append(s, e) \in Seq(S) /\ Len(Append(s, e)) = Len(s) + 1
           /\ s # <<>> => Head(s) \in S /\ Tail(s) \in Seq(S) /\ Len(Tail(s)) = Len(s) - 1
BY DEF ToSet

LEMMA AppendSet ==
    ASSUME NEW S, NEW s \in Seq(S), NEW e \in S
    PROVE  /\ ToSet(Append(s, e)) = ToSet(s) \cup {e}
           /\ IsInjective(s) /\ e \notin ToSet(s) => IsInjective(Append(s, e))
<1> DEFINE t == Append(s, e)
<1>1. t \in Seq(S) /\ Len(t) = Len(s) + 1 /\ t[Len(s) + 1] = e /\ Len(s) \in Nat
      /\ \A i \in 1..Len(s) : t[i] = s[i]
  OBVIOUS
<1> HIDE DEF t
<1>2. ToSet(t) = ToSet(s) \cup {e}
  BY <1>1 DEF ToSet
<1>3. ASSUME IsInjective(s), e \notin ToSet(s) PROVE IsInjective(t)
  BY <1>1, <1>3 DEF IsInjective, ToSet
<1> QED
  BY <1>2, <1>3 DEF t

LEMMA TailSet ==
    ASSUME NEW S, NEW s \in Seq(S), s # <<>>
    PROVE  /\ ToSet(Tail(s)) \cup {Head(s)} = ToSet(s)
           /\ IsInjective(s) => IsInjective(Tail(s)) /\ Head(s) \notin ToSet(Tail(s))
<1> DEFINE t == Tail(s)
<1>1. Len(s) \in Nat \ {0} /\ t \in Seq(S) /\ Len(t) = Len(s) - 1 /\ Head(s) = s[1]
      /\ \A i \in 1..(Len(s) - 1) : t[i] = s[i + 1]
  OBVIOUS
<1> HIDE DEF t
<1>2. ToSet(t) \cup {Head(s)} = ToSet(s)
  <2>1. ASSUME NEW i \in 1..Len(s) PROVE s[i] = Head(s) \/ \E k \in 1..Len(t) : t[k] = s[i]
    <3>1. CASE i = 1
      BY <1>1, <3>1
    <3>2. CASE i # 1
      <4>1. i - 1 \in 1..Len(t) /\ (i - 1) + 1 = i
        BY <1>1, <3>2
      <4> QED
        BY <1>1, <4>1
    <3> QED
      BY <3>1, <3>2
  <2>2. ASSUME NEW k \in 1..Len(t) PROVE k + 1 \in 1..Len(s) /\ t[k] = s[k + 1]
    BY <1>1
  <2>3. 1 \in 1..Len(s)
    BY <1>1
  <2>4. ASSUME NEW e PROVE e \in ToSet(t) \cup {Head(s)} <=> e \in ToSet(s)
    <3>1. e \in ToSet(s) <=> \E i \in 1..Len(s) : s[i] = e
      BY DEF ToSet
    <3>2. e \in ToSet(t) <=> \E k \in 1..Len(t) : t[k] = e
      BY <1>1 DEF ToSet
    <3>3. e \in ToSet(t) => e \in ToSet(s)
      BY <2>2, <3>1, <3>2
    <3>4. Head(s) \in ToSet(s)
      BY <1>1, <2>3 DEF ToSet
    <3> QED
      BY <2>1, <3>1, <3>2, <3>3, <3>4
  <2> QED
    BY <2>4
<1>3. ASSUME IsInjective(s) PROVE IsInjective(t) /\ Head(s) \notin ToSet(t)
  <2>1. \A i, j \in 1..Len(s) : s[i] = s[j] => i = j
    BY <1>3 DEF IsInjective
  <2>2. ASSUME NEW k \in 1..Len(t) PROVE t[k] # Head(s)
    <3>1. k + 1 \in 1..Len(s) /\ 1 \in 1..Len(s) /\ k + 1 # 1
      BY <1>1
    <3> QED
      BY <1>1, <2>1, <3>1
  <2>3. ASSUME NEW i \in 1..Len(t), NEW j \in 1..Len(t), t[i] = t[j] PROVE i = j
    <3>1. i + 1 \in 1..Len(s) /\ j + 1 \in 1..Len(s) /\ s[i + 1] = s[j + 1]
      BY <1>1, <2>3
    <3>2. i + 1 = j + 1
      BY <2>1, <3>1
    <3> QED
      BY <1>1, <3>2
  <2> QED
    BY <1>1, <2>2, <2>3 DEF IsInjective, ToSet
<1> QED
  BY <1>2, <1>3 DEF t

-----------------------------------------------------------------------------
(* The counters and the threads.                                           *)

Running == {w \in Workers : pc[w] = "run"}

\* The two counters count, threads start in order, the pool is freed only
\* when no thread is left, and nobody adds a task unless the pool is open.
PoolInv ==
    /\ TypeOK
    /\ mpc # "gone" => taskNum = Len(tasks)
    /\ running = Cardinality(Running)
    /\ \A w \in Workers : pc[w] = "none" <=> w > threadNum
    /\ \A w \in Workers : held[w] # NoTask <=> pc[w] \in {"popped", "run"}
    /\ mpc = "gone" => \A w \in Workers : pc[w] \in {"none", "ended"}
    /\ mpc # "open" => \A c \in Callers : caller[c] = NoTask

LEMMA RunningFinite == IsFiniteSet(Running)
<1>1. IsFiniteSet(Workers)
  BY FS_Interval, TaskPoolAssumption DEF Workers
<1> QED
  BY <1>1, FS_Subset DEF Running

LEMMA InitPool == Init => PoolInv
<1> SUFFICES ASSUME Init PROVE PoolInv
  OBVIOUS
<1>1. Running = {} /\ Cardinality({}) = 0
  BY FS_EmptySet DEF Init, Running
<1>2. TypeOK
  <2>1. <<>> \in Seq(Tasks) /\ 0 \in 0..ThreadNum
    BY TaskPoolAssumption
  <2> QED
    BY <2>1 DEF Init, TypeOK
<1>3. Len(tasks) = 0 /\ \A w \in Workers : w > 0
  BY DEF Init, Workers
<1> QED
  BY <1>1, <1>2, <1>3 DEF Init, PoolInv

LEMMA PoolInductive ==
    ASSUME PoolInv, [Next]_vars
    PROVE  PoolInv'
<1> USE TaskPoolAssumption DEF poolVars, workerVars, historyVars
<1>0. /\ tasks \in Seq(Tasks) /\ ToSet(tasks) \subseteq Tasks /\ Workers \subseteq Nat \ {0}
      /\ pc \in [Workers -> {"none", "top", "lock", "wait", "woken", "pop", "popped", "run", "ended"}]
  BY SeqFacts DEF PoolInv, TypeOK, Workers
\* A step that leaves the list, the counters and the running threads alone.
<1>1. ASSUME TypeOK', UNCHANGED <<tasks, taskNum, running, threadNum>>, Running' = Running,
             mpc # "gone", mpc' # "gone",
             \A w \in Workers : pc'[w] = "none" <=> pc[w] = "none",
             \A w \in Workers : held'[w] # NoTask <=> pc'[w] \in {"popped", "run"},
             mpc' # "open" => \A c \in Callers : caller'[c] = NoTask
      PROVE  PoolInv'
  BY <1>1 DEF PoolInv
<1>2. CASE CreateThread
  <2>1. TypeOK' /\ Running' = Running
    BY <1>0, <1>2 DEF CreateThread, PoolInv, TypeOK, Running, Workers
  <2>2. ASSUME NEW w \in Workers PROVE pc'[w] = "none" <=> w > threadNum'
    BY <1>0, <1>2 DEF CreateThread, PoolInv, TypeOK, Workers
  <2>3. ASSUME NEW w \in Workers PROVE held'[w] # NoTask <=> pc'[w] \in {"popped", "run"}
    <3>1. w = threadNum + 1 => pc[w] = "none" /\ pc'[w] = "top"
      BY <1>0, <1>2 DEF CreateThread, PoolInv, TypeOK, Workers
    <3>2. w # threadNum + 1 => pc'[w] = pc[w]
      BY <1>0, <1>2 DEF CreateThread
    <3> QED
      BY <1>2, <3>1, <3>2 DEF CreateThread, PoolInv
  <2> QED
    BY <1>2, <2>1, <2>2, <2>3 DEF CreateThread, PoolInv
<1>3. CASE CreateFails \/ CreateReturn \/ SeeNoTask \/ SeeNoneRunning \/ SetExit
  BY <1>1, <1>3 DEF CreateFails, CreateReturn, SeeNoTask, SeeNoneRunning, SetExit, PoolInv, TypeOK, Running
<1>4. ASSUME NEW d \in BOOLEAN, Close(d) PROVE PoolInv'
  BY <1>1, <1>4 DEF Close, PoolInv, TypeOK, Running
<1>5. CASE ExitBroadcast
  BY <1>1, <1>5 DEF ExitBroadcast, Broadcast, PoolInv, TypeOK, Running
<1>6. CASE JoinAndFree
  <2>1. ASSUME NEW w \in Workers PROVE pc[w] \in {"none", "ended"}
    BY <1>0, <1>6 DEF JoinAndFree, PoolInv, TypeOK, Workers
  <2>2. TypeOK' /\ Running' = Running
    BY <1>0, <1>6 DEF JoinAndFree, PoolInv, TypeOK, Running
  <2> QED
    BY <1>6, <2>1, <2>2 DEF JoinAndFree, PoolInv
<1>7. ASSUME NEW c \in Callers, AddBroadcast(c) PROVE PoolInv'
  <2>1. mpc = "open" /\ caller[c] \in Tasks
    BY <1>7 DEF AddBroadcast, PoolInv, TypeOK
  <2>2. TypeOK' /\ Running' = Running /\ \A w \in Workers : pc'[w] = "none" <=> pc[w] = "none"
    BY <1>0, <1>7, <2>1 DEF AddBroadcast, Broadcast, PoolInv, TypeOK, Running
  <2>3. \A w \in Workers : held'[w] # NoTask <=> pc'[w] \in {"popped", "run"}
    BY <1>0, <1>7 DEF AddBroadcast, Broadcast, PoolInv
  <2> QED
    BY <1>1, <1>7, <2>1, <2>2, <2>3 DEF AddBroadcast
<1>8. ASSUME NEW c \in Callers, NEW t \in Tasks, AddTask(c, t) PROVE PoolInv'
  <2>1. tasks' \in Seq(Tasks) /\ taskNum' = Len(tasks') /\ taskNum' \in Nat
    <3>1. Append(tasks, t) \in Seq(Tasks) /\ Len(Append(tasks, t)) = Len(tasks) + 1 /\ Len(tasks) \in Nat
      BY <1>0, SeqFacts
    <3>2. taskNum = Len(tasks) /\ taskNum' = taskNum + 1 /\ tasks' = Append(tasks, t)
      BY <1>8 DEF AddTask, PoolInv
    <3> QED
      BY <3>1, <3>2
  <2>2. TypeOK' /\ Running' = Running
    BY <1>0, <1>8, <2>1 DEF AddTask, PoolInv, TypeOK, Running
  <2> QED
    BY <1>8, <2>1, <2>2 DEF AddTask, PoolInv
<1>9. ASSUME NEW w \in Workers, PopTask(w) PROVE PoolInv'
  <2>1. mpc # "gone" /\ taskNum = Len(tasks)
    BY <1>9 DEF PopTask, Goto, PoolInv
  <2>2. Head(tasks) \in Tasks /\ tasks' \in Seq(Tasks) /\ taskNum' = Len(tasks') /\ taskNum' \in Nat
    BY <1>0, <1>9, <2>1, SeqFacts DEF PopTask
  <2>3. TypeOK' /\ Running' = Running /\ \A v \in Workers : pc'[v] = "none" <=> pc[v] = "none"
    BY <1>0, <1>9, <2>2 DEF PopTask, Goto, PoolInv, TypeOK, Running
  <2>4. \A v \in Workers : held'[v] # NoTask <=> pc'[v] \in {"popped", "run"}
    BY <1>0, <1>9, <2>2 DEF PopTask, Goto, PoolInv, TypeOK
  <2> QED
    BY <1>9, <2>1, <2>2, <2>3, <2>4 DEF PopTask, PoolInv
<1>10. ASSUME NEW w \in Workers, CountRunning(w) PROVE PoolInv'
  <2>1. Running' = Running \cup {w} /\ w \notin Running
    BY <1>0, <1>10 DEF CountRunning, Goto, Running
  <2>2. Cardinality(Running') = Cardinality(Running) + 1
    BY <2>1, RunningFinite, FS_AddElement
  <2>3. TypeOK' /\ \A v \in Workers : pc'[v] = "none" <=> pc[v] = "none"
    BY <1>0, <1>10 DEF CountRunning, Goto, PoolInv, TypeOK
  <2> QED
    BY <1>10, <2>2, <2>3 DEF CountRunning, Goto, PoolInv
<1>11. ASSUME NEW w \in Workers, RunTask(w) PROVE PoolInv'
  <2>1. Running' = Running \ {w} /\ w \in Running
    BY <1>0, <1>11 DEF RunTask, Goto, Running
  <2>2. Cardinality(Running) \in Nat \ {0} /\ Cardinality(Running') = Cardinality(Running) - 1
    <3>1. Cardinality(Running) \in Nat /\ Cardinality(Running') = Cardinality(Running) - 1
          /\ Cardinality(Running') \in Nat
      BY <2>1, RunningFinite, FS_RemoveElement, FS_CardinalityType, FS_Subset
    <3> QED
      BY <3>1
  <2>3. running' \in Nat
    BY <1>11, <2>2 DEF RunTask, PoolInv
  <2>4. held[w] \in Tasks
    BY <1>11 DEF RunTask, Goto, PoolInv, TypeOK
  <2>5. mpc # "gone" /\ \A v \in Workers : pc'[v] = "none" <=> pc[v] = "none"
    BY <1>0, <1>11 DEF RunTask, Goto, PoolInv
  <2> QED
    BY <1>11, <2>2, <2>3, <2>4, <2>5 DEF RunTask, Goto, PoolInv, TypeOK
<1>12. ASSUME NEW w \in Workers, TestExit(w) \/ Wait(w) \/ Woken(w) \/ SpuriousWakeup(w) \/ FindNone(w)
       PROVE  PoolInv'
  <2>1. mpc # "gone"
    BY <1>12 DEF TestExit, Wait, Woken, SpuriousWakeup, FindNone, Goto, PoolInv
  <2>2. TypeOK' /\ Running' = Running /\ \A v \in Workers : pc'[v] = "none" <=> pc[v] = "none"
    BY <1>0, <1>12 DEF TestExit, Wait, Woken, SpuriousWakeup, FindNone, Goto, PoolInv, TypeOK, Running
  <2>3. \A v \in Workers : held'[v] # NoTask <=> pc'[v] \in {"popped", "run"}
    BY <1>0, <1>12 DEF TestExit, Wait, Woken, SpuriousWakeup, FindNone, Goto, PoolInv
  <2> QED
    BY <1>1, <1>12, <2>1, <2>2, <2>3 DEF TestExit, Wait, Woken, SpuriousWakeup, FindNone, PoolInv
<1>13. CASE UNCHANGED vars
  BY <1>13 DEF vars, PoolInv, TypeOK, Running
<1> QED
  BY <1>2, <1>3, <1>4, <1>5, <1>6, <1>7, <1>8, <1>9, <1>10, <1>11, <1>12, <1>13
     DEF Next, OwnerStep, WorkerStep

-----------------------------------------------------------------------------
(* Where the tasks are.                                                    *)

Known == ToSet(tasks) \cup Held \cup done \cup freed

\* A task is in one place, and the pool knows what was handed to it.
OwnInv ==
    /\ IsInjective(tasks) /\ ToSet(tasks) \cap (done \cup freed) = {}
    /\ \A w \in Workers : held[w] # NoTask =>
          held[w] \notin ToSet(tasks) \cup done \cup freed
    /\ \A v, w \in Workers : v # w /\ held[v] # NoTask => held[v] # held[w]
    /\ \A t \in Known : t \in added \/ \E c \in Callers : caller[c] = t
    /\ added \subseteq Known
    /\ \A c \in Callers : caller[c] # NoTask => caller[c] \in Known

\* Once main has seen task_num at 0 the list stays empty.
DrainInv ==
    /\ drain => mpc \in {"pollTasks", "pollRunning", "release", "broadcast", "join", "gone"}
    /\ drain /\ mpc # "pollTasks" => tasks = <<>>
    /\ mpc # "gone" \/ drain => freed = {}

\* The five steps that move a task.
LEMMA OtherSteps ==
    ASSUME [Next]_vars,
           ~(\E c \in Callers : AddBroadcast(c) \/ \E t \in Tasks : AddTask(c, t)),
           ~(\E w \in Workers : PopTask(w) \/ RunTask(w)),
           ~JoinAndFree
    PROVE  UNCHANGED <<tasks, held, done, freed, added, caller>>
BY DEF Next, OwnerStep, WorkerStep, CreateThread, CreateFails, CreateReturn, Close, SeeNoTask,
       SeeNoneRunning, SetExit, ExitBroadcast, TestExit, Wait, Woken, SpuriousWakeup, FindNone,
       CountRunning, vars, poolVars, workerVars, historyVars

\* Popping a task moves it from the head of the list to the worker.
LEMMA PopFacts ==
    ASSUME PoolInv, NEW w \in Workers, PopTask(w)
    PROVE  /\ tasks # <<>> /\ tasks' = Tail(tasks) /\ held[w] = NoTask
           /\ Head(tasks) \in Tasks /\ Head(tasks) # NoTask
           /\ held' = [held EXCEPT ![w] = Head(tasks)] /\ held \in [Workers -> Tasks \cup {NoTask}]
           /\ Held' = Held \cup {Head(tasks)}
           /\ ToSet(tasks) = ToSet(tasks') \cup {Head(tasks)}
           /\ IsInjective(tasks) => IsInjective(tasks') /\ Head(tasks) \notin ToSet(tasks')
<1>1. tasks \in Seq(Tasks) /\ held \in [Workers -> Tasks \cup {NoTask}]
  BY DEF PoolInv, TypeOK
<1>2. tasks # <<>> /\ tasks' = Tail(tasks) /\ held[w] = NoTask /\ held' = [held EXCEPT ![w] = Head(tasks)]
  BY DEF PopTask, Goto, PoolInv
<1>3. Head(tasks) \in Tasks /\ Head(tasks) # NoTask
  BY <1>1, <1>2, SeqFacts, TaskPoolAssumption
<1>4. Held' = Held \cup {Head(tasks)}
  BY <1>1, <1>2, <1>3 DEF Held
<1> QED
  BY <1>1, <1>2, <1>3, <1>4, TailSet

\* A worker that is done with its task gives it up.
LEMMA RunFacts ==
    ASSUME PoolInv, OwnInv, NEW w \in Workers, RunTask(w)
    PROVE  /\ held[w] \in Tasks /\ held[w] \in Held /\ Held' = Held \ {held[w]}
           /\ held' = [held EXCEPT ![w] = NoTask] /\ held \in [Workers -> Tasks \cup {NoTask}]
           /\ done' = done \cup {held[w]}
<1>1. held \in [Workers -> Tasks \cup {NoTask}] /\ held[w] # NoTask
      /\ held' = [held EXCEPT ![w] = NoTask] /\ done' = done \cup {held[w]}
  BY DEF RunTask, Goto, PoolInv, TypeOK
<1>2. Held' = Held \ {held[w]}
  BY <1>1 DEF Held, OwnInv
<1> QED
  BY <1>1, <1>2 DEF Held

LEMMA OwnInductive ==
    ASSUME PoolInv, OwnInv, [Next]_vars
    PROVE  OwnInv'
<1>0. tasks \in Seq(Tasks) /\ NoTask \notin Tasks
  BY TaskPoolAssumption DEF PoolInv, TypeOK
<1>1. ASSUME NEW c \in Callers, NEW t \in Tasks, AddTask(c, t) PROVE OwnInv'
  <2>1. t \notin Known
    BY <1>1 DEF AddTask, OwnInv
  <2>2. tasks' = Append(tasks, t) /\ caller' = [caller EXCEPT ![c] = t] /\ caller[c] = NoTask
        /\ UNCHANGED <<held, done, freed, added>>
    BY <1>1 DEF AddTask, workerVars, historyVars
  <2>3. ToSet(tasks') = ToSet(tasks) \cup {t} /\ IsInjective(tasks')
    BY <1>0, <2>1, <2>2, AppendSet DEF OwnInv, Known
  <2>4. Held' = Held /\ Known' = Known \cup {t}
    BY <2>2, <2>3 DEF Known, Held
  <2>5. t \notin ToSet(tasks) \cup done \cup freed /\ \A w \in Workers : held[w] # t
    BY <1>0, <2>1 DEF Known, Held
  <2>6. caller'[c] = t /\ \A d \in Callers \ {c} : caller'[d] = caller[d]
    BY <2>2 DEF PoolInv, TypeOK
  <2>7. \A x \in Known' : x \in added' \/ \E d \in Callers : caller'[d] = x
    <3> SUFFICES ASSUME NEW x \in Known', x # t PROVE x \in added' \/ \E d \in Callers : caller'[d] = x
      BY <2>6
    <3>1. x \in added \/ \E d \in Callers : caller[d] = x
      BY <2>4 DEF OwnInv
    <3>2. x # NoTask
      BY <1>0, <2>4, SeqFacts DEF Known, Held, PoolInv, TypeOK
    <3> QED
      BY <2>2, <2>6, <3>1, <3>2
  <2> QED
    BY <2>2, <2>3, <2>4, <2>5, <2>6, <2>7 DEF OwnInv
<1>2. ASSUME NEW c \in Callers, AddBroadcast(c) PROVE OwnInv'
  <2>1. UNCHANGED <<tasks, held, done, freed>> /\ Known' = Known
    BY <1>2 DEF AddBroadcast, poolVars, Known, Held
  <2>2. added' = added \cup {caller[c]} /\ caller' = [caller EXCEPT ![c] = NoTask]
        /\ caller[c] \in Known
    BY <1>2 DEF AddBroadcast, OwnInv
  <2>3. caller'[c] = NoTask /\ \A d \in Callers \ {c} : caller'[d] = caller[d]
    BY <2>2 DEF PoolInv, TypeOK
  <2> QED
    BY <2>1, <2>2, <2>3 DEF OwnInv
<1>3. ASSUME NEW w \in Workers, PopTask(w) PROVE OwnInv'
  <2>1. UNCHANGED <<done, freed, added, caller>>
    BY <1>3 DEF PopTask, historyVars
  <2>2. Known' = Known
    BY <1>3, <2>1, PopFacts DEF Known
  <2>3. Head(tasks) \notin ToSet(tasks') \cup done \cup freed /\ \A v \in Workers : held[v] # Head(tasks)
    BY <1>3, PopFacts DEF OwnInv
  <2>4. held'[w] = Head(tasks) /\ \A v \in Workers \ {w} : held'[v] = held[v]
    BY <1>3, PopFacts
  <2> QED
    BY <1>3, <2>1, <2>2, <2>3, <2>4, PopFacts DEF OwnInv
<1>4. ASSUME NEW w \in Workers, RunTask(w) PROVE OwnInv'
  <2>1. UNCHANGED <<tasks, freed, added, caller>>
    BY <1>4 DEF RunTask
  <2>2. Known' = Known
    BY <1>4, <2>1, RunFacts DEF Known
  <2>3. held'[w] = NoTask /\ \A v \in Workers \ {w} : held'[v] = held[v]
    BY <1>4, RunFacts
  <2>4. held[w] # NoTask /\ done' = done \cup {held[w]}
    BY <1>0, <1>4, RunFacts
  <2> QED
    BY <2>1, <2>2, <2>3, <2>4 DEF OwnInv
<1>5. CASE JoinAndFree
  <2>1. tasks' = <<>> /\ freed' = freed \cup ToSet(tasks) /\ UNCHANGED <<held, done, added, caller>>
    BY <1>5 DEF JoinAndFree, workerVars
  <2>2. ToSet(tasks') = {} /\ IsInjective(tasks')
    BY <2>1 DEF ToSet, IsInjective
  <2>3. Known' = Known
    BY <2>1, <2>2 DEF Known, Held
  <2> QED
    BY <2>1, <2>2, <2>3 DEF OwnInv
<1>6. CASE UNCHANGED <<tasks, held, done, freed, added, caller>>
  BY <1>6 DEF OwnInv, Known, Held
<1> QED
  BY <1>1, <1>2, <1>3, <1>4, <1>5, <1>6, OtherSteps

LEMMA InitOwn == Init => OwnInv /\ DrainInv
<1> SUFFICES ASSUME Init PROVE OwnInv /\ DrainInv
  OBVIOUS
<1>1. tasks = <<>> /\ ToSet(<<>>) = {} /\ IsInjective(<<>>) /\ Held = {}
  BY DEF Init, ToSet, IsInjective, Held
<1> QED
  BY <1>1 DEF Init, OwnInv, DrainInv, Known

LEMMA DrainInductive ==
    ASSUME PoolInv, DrainInv, [Next]_vars
    PROVE  DrainInv'
<1> USE DEF DrainInv, poolVars, workerVars, historyVars
<1>1. ASSUME NEW c \in Callers, NEW t \in Tasks, AddTask(c, t) PROVE DrainInv'
  BY <1>1 DEF AddTask
<1>2. ASSUME NEW c \in Callers, AddBroadcast(c) PROVE DrainInv'
  BY <1>2 DEF AddBroadcast
<1>3. ASSUME NEW w \in Workers, PopTask(w) PROVE DrainInv'
  BY <1>3 DEF PopTask
<1>4. CASE SeeNoTask
  <2>1. tasks = <<>>
    BY <1>4, SeqFacts DEF SeeNoTask, PoolInv, TypeOK
  <2> QED
    BY <1>4, <2>1 DEF SeeNoTask
<1>5. CASE JoinAndFree
  <2>1. drain => ToSet(tasks) = {}
    BY <1>5, SeqFacts DEF JoinAndFree, PoolInv, TypeOK
  <2> QED
    BY <1>5, <2>1 DEF JoinAndFree
<1>6. CASE CreateThread \/ CreateFails \/ CreateReturn \/ SeeNoneRunning \/ SetExit \/ ExitBroadcast
  BY <1>6 DEF CreateThread, CreateFails, CreateReturn, SeeNoneRunning, SetExit, ExitBroadcast
<1>7. ASSUME NEW d \in BOOLEAN, Close(d) PROVE DrainInv'
  BY <1>7 DEF Close
<1>8. ASSUME NEW w \in Workers,
             \/ TestExit(w) \/ Wait(w) \/ Woken(w) \/ SpuriousWakeup(w) \/ FindNone(w)
             \/ CountRunning(w) \/ RunTask(w)
      PROVE  DrainInv'
  BY <1>8 DEF TestExit, Wait, Woken, SpuriousWakeup, FindNone, CountRunning, RunTask
<1>9. CASE UNCHANGED vars
  BY <1>9 DEF vars
<1> QED
  BY <1>1, <1>2, <1>3, <1>4, <1>5, <1>6, <1>7, <1>8, <1>9 DEF Next, OwnerStep, WorkerStep

-----------------------------------------------------------------------------
\* The pool's counters never go below zero and its variables keep their types,
\* for any number of threads, callers and tasks (thread_pool.c).
THEOREM TypeCorrect == Spec => []TypeOK
<1>1. PoolInv => TypeOK
  BY DEF PoolInv
<1>2. PoolInv /\ [Next]_vars => PoolInv'
  BY PoolInductive
<1> QED
  BY <1>1, <1>2, InitPool, PTL DEF Spec

\* thread_pool_release frees the pool only when no thread is left to use it,
\* also when thread_pool_create failed half-way.
THEOREM NoneLeft == Spec => []NoWorkerAfterFree
<1>1. PoolInv => NoWorkerAfterFree
  BY DEF PoolInv, NoWorkerAfterFree
<1>2. PoolInv /\ [Next]_vars => PoolInv'
  BY PoolInductive
<1> QED
  BY <1>1, <1>2, InitPool, PTL DEF Spec

\* What main drained is done when the pool is freed: the two counters it polls
\* do not show a task that is popped and not yet counted, and the joins of
\* thread_pool_release wait for it.
THEOREM Drained == Spec => []DrainedPoolIsDone
<1>1. PoolInv /\ OwnInv /\ DrainInv => DrainedPoolIsDone
  <2> SUFFICES ASSUME PoolInv, OwnInv, DrainInv, mpc = "gone", drain
               PROVE  added \subseteq done /\ freed = {}
    BY DEF DrainedPoolIsDone
  <2>1. Held = {}
    BY DEF PoolInv, Held
  <2>2. ToSet(tasks) = {} /\ freed = {}
    BY SeqFacts DEF DrainInv, PoolInv, TypeOK
  <2> QED
    BY <2>1, <2>2 DEF OwnInv, Known
<1>2. PoolInv /\ [Next]_vars => PoolInv'
  BY PoolInductive
<1>3. PoolInv /\ OwnInv /\ [Next]_vars => OwnInv'
  BY OwnInductive
<1>4. PoolInv /\ DrainInv /\ [Next]_vars => DrainInv'
  BY DrainInductive
<1> QED
  BY <1>1, <1>2, <1>3, <1>4, InitPool, InitOwn, PTL DEF Spec

\* ToSet as the job service sees it is ToSet.
LEMMA SameToSet ==
    ASSUME NEW s
    PROVE  Service!ToSet(s) = ToSet(s)
BY DEF Service!ToSet, ToSet

\* thread_pool.c implements the FIFO job service: tasks start in the order
\* they were added, each at most once, and only tasks nobody popped are freed.
THEOREM Refinement == Spec => ImplementsJobService
<1>1. Init => Service!Init
  BY DEF Init, Service!Init, Held
<1>2. PoolInv /\ OwnInv /\ [Next]_vars => [Service!Next]_(Service!vars)
  <2> SUFFICES ASSUME PoolInv, OwnInv, [Next]_vars
               PROVE  Service!Next \/ UNCHANGED Service!vars
    OBVIOUS
  <2>1. ASSUME NEW c \in Callers, NEW t \in Tasks, AddTask(c, t) PROVE Service!Next
    <3>1. t \notin Known /\ tasks' = Append(tasks, t) /\ UNCHANGED <<held, done, freed>>
      BY <2>1 DEF AddTask, OwnInv, workerVars, historyVars
    <3>2. Service!Submit(t)
      BY <3>1, SameToSet DEF Service!Submit, Service!Known, Known, Held
    <3> QED
      BY <3>2 DEF Service!Next
  <2>2. ASSUME NEW w \in Workers, PopTask(w) PROVE Service!Next
    <3>1. Service!Start
      BY <2>2, PopFacts DEF PopTask, historyVars, Service!Start
    <3> QED
      BY <3>1 DEF Service!Next
  <2>3. ASSUME NEW w \in Workers, RunTask(w) PROVE Service!Next
    <3>1. Service!Finish(held[w])
      BY <2>3, RunFacts DEF RunTask, Service!Finish
    <3> QED
      BY <2>3, <3>1, RunFacts DEF Service!Next
  <2>4. CASE JoinAndFree
    <3>1. Service!Discard
      BY <2>4, SameToSet DEF JoinAndFree, workerVars, Service!Discard, Held
    <3> QED
      BY <3>1 DEF Service!Next
  <2>5. ASSUME NEW c \in Callers, AddBroadcast(c) PROVE UNCHANGED Service!vars
    BY <2>5 DEF AddBroadcast, poolVars, Service!vars, Held
  <2>6. CASE UNCHANGED <<tasks, held, done, freed, added, caller>>
    BY <2>6 DEF Service!vars, Held
  <2> QED
    BY <2>1, <2>2, <2>3, <2>4, <2>5, <2>6, OtherSteps
<1>3. PoolInv /\ [Next]_vars => PoolInv'
  BY PoolInductive
<1>4. PoolInv /\ OwnInv /\ [Next]_vars => OwnInv'
  BY OwnInductive
<1> QED
  BY <1>1, <1>2, <1>3, <1>4, InitPool, InitOwn, PTL DEF Spec, ImplementsJobService, Service!Spec
=============================================================================
