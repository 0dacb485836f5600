--------------------------- MODULE JobPool_proofs ---------------------------
(***************************************************************************)
(* What holds of the job pool for any number of workers, clients and jobs. *)
(***************************************************************************)
EXTENDS JobPool, TLAPS

\* The call a client is in decides which fields its record has.
LEMMA CallFields ==
    ASSUME NEW r \in Calls
    PROVE  /\ r.op \in {"idle", "enqueue", "broadcast", "grow"}
           /\ r.op \in {"enqueue", "broadcast"} => r.job \in Jobs /\ r = [op |-> r.op, job |-> r.job]
           /\ r.op = "grow" => r.num \in 1..MaxGrow /\ r = [op |-> r.op, num |-> r.num]
BY DEF Calls, Idle

\* The jobs of a list are jobs.
LEMMA ToSetTyped ==
    ASSUME NEW S, NEW s \in Seq(S)
    PROVE  ToSet(s) \subseteq S
BY DEF ToSet

\* The pool's variables keep their types under every interleaving of
\* clients, workers and the main thread (the whole of thread-pool.c).
THEOREM TypeCorrect == Spec => []TypeOK
<1>1. Init => TypeOK
  BY DEF Init, TypeOK, Calls, Idle
<1>2. TypeOK /\ [Next]_vars => TypeOK'
  <2> SUFFICES ASSUME TypeOK, [Next]_vars PROVE TypeOK'
    OBVIOUS
  <2> USE JobPoolAssumption DEF TypeOK, queueVars, workerVars, mainVars, historyVars
  <2>1. CASE MainStep
    <3>1. CASE InitThread
      BY <3>1 DEF InitThread, CreateThread
    <3>2. CASE InitReturn
      BY <3>2 DEF InitReturn
    <3>3. CASE CloseQueue
      <4>1. ToSet(jobs) \subseteq Jobs
        BY ToSetTyped
      <4>2. jobs' \in Seq(Jobs) /\ freed' \subseteq Jobs
        <5>1. CASE waitArg = 0
          BY <3>3, <4>1, <5>1 DEF CloseQueue
        <5>2. CASE waitArg # 0
          BY <3>3, <5>2 DEF CloseQueue
        <5> QED
          BY <5>1, <5>2
      <4> QED
        BY <3>3, <4>2 DEF CloseQueue
    <3>4. CASE CloseBroadcast
      BY <3>4 DEF CloseBroadcast, Broadcast
    <3>5. CASE CancelHead
      BY <3>5 DEF CancelHead
    <3>6. CASE JoinHead
      <4>1. threads # <<>> /\ Tail(threads) \in Seq(Workers)
        BY <3>6 DEF JoinHead
      <4> QED
        BY <3>6, <4>1 DEF JoinHead
    <3>7. CASE DestroyReturn
      BY <3>7 DEF DestroyReturn
    <3> QED
      BY <2>1, <3>1, <3>2, <3>3, <3>4, <3>5, <3>6, <3>7 DEF MainStep
  <2>2. ASSUME NEW wait \in WaitModes, DestroyBegin(wait) PROVE TypeOK'
    BY <2>2 DEF DestroyBegin
  <2>3. ASSUME NEW c \in Clients, ClientStep(c) PROVE TypeOK'
    <3>0. client[c] \in Calls
      OBVIOUS
    <3>1. CASE GrowThread(c)
      <4>1. client[c].num \in 1..MaxGrow
        BY <3>0, <3>1, CallFields DEF GrowThread
      <4>2. client[c].num # 1 => Growing(client[c].num - 1) \in Calls
        BY <4>1 DEF Calls, Growing
      <4>3. client' \in [Clients -> Calls]
        BY <3>1, <4>2 DEF GrowThread, Calls
      <4>4. threads' \in Seq(Workers) /\ pc' \in [Workers -> {"none", "lock", "wait", "relock", "run", "dead"}]
        <5>1. ASSUME NEW w \in Workers, CreateThread(w)
              PROVE  threads' \in Seq(Workers) /\ pc' \in [Workers -> {"none", "lock", "wait", "relock", "run", "dead"}]
          BY <5>1 DEF CreateThread
        <5> QED
          BY <3>1, <5>1 DEF GrowThread
      <4>5. mpc' # "join"
        BY <3>1 DEF GrowThread, ThreadQueueLocked
      <4> QED
        BY <3>1, <4>3, <4>4, <4>5 DEF GrowThread, CreateThread
    <3>2. CASE AddEnqueue(c)
      <4>1. client[c].job \in Jobs /\ client[c] = [op |-> "enqueue", job |-> client[c].job]
        BY <3>0, <3>2, CallFields DEF AddEnqueue
      <4>2. [client[c] EXCEPT !.op = "broadcast"] \in Calls
        BY <4>1 DEF Calls
      <4> QED
        BY <3>2, <4>1, <4>2 DEF AddEnqueue
    <3>3. CASE AddBroadcast(c)
      BY <3>0, <3>3, CallFields DEF AddBroadcast, Broadcast, Calls
    <3> QED
      BY <2>3, <3>1, <3>2, <3>3 DEF ClientStep
  <2>4. ASSUME NEW c \in Clients, NEW j \in Jobs, AddCheck(c, j) PROVE TypeOK'
    BY <2>4 DEF AddCheck, Calls
  <2>5. ASSUME NEW c \in Clients, NEW n \in 1..MaxGrow, GrowCheck(c, n) PROVE TypeOK'
    BY <2>5 DEF GrowCheck, Calls, Growing
  <2>6. ASSUME NEW w \in Workers, WorkerStep(w) \/ SpuriousWakeup(w) PROVE TypeOK'
    <3>1. CASE Take(w)
      <4>1. cur' \in [Workers -> Jobs \cup {NoOne}] /\ jobs' \in Seq(Jobs)
        <5>1. CASE jobs = <<>>
          BY <3>1, <5>1 DEF Take, GetJob
        <5>2. CASE jobs # <<>>
          <6>1. Head(jobs) \in Jobs /\ Tail(jobs) \in Seq(Jobs)
            BY <5>2
          <6> QED
            BY <3>1, <5>2, <6>1 DEF Take, GetJob
        <5> QED
          BY <5>1, <5>2
      <4>2. jobNum' \in Int
        BY <3>1 DEF Take, GetJob
      <4> QED
        BY <3>1, <4>1, <4>2 DEF Take
    <3>2. CASE Sleep(w)
      BY <3>2 DEF Sleep
    <3>3. CASE DieHoldingMutex(w)
      BY <3>3 DEF DieHoldingMutex
    <3>4. CASE Run(w)
      BY <3>4 DEF Run
    <3>5. CASE SpuriousWakeup(w)
      BY <3>5 DEF SpuriousWakeup
    <3> QED
      BY <2>6, <3>1, <3>2, <3>3, <3>4, <3>5 DEF WorkerStep
  <2>7. CASE UNCHANGED vars
    BY <2>7 DEF vars
  <2> QED
    BY <2>1, <2>2, <2>3, <2>4, <2>5, <2>6, <2>7 DEF Next
<1> QED
  BY <1>1, <1>2, PTL DEF Spec

-----------------------------------------------------------------------------
\* However adds, workers and destroy interleave, job_num is the length of the
\* list, and one less once destroy has stored its -1 (thread-pool.c 114, 124,
\* 141, 181).
THEOREM CountCorrect == Spec => []CountMatches
<1>1. Init => CountMatches
  BY DEF Init, CountMatches, Closed
<1>2. TypeOK /\ CountMatches /\ [Next]_vars => CountMatches'
  <2> SUFFICES ASSUME TypeOK, CountMatches, [Next]_vars PROVE CountMatches'
    OBVIOUS
  <2> USE DEF CountMatches, Closed, queueVars, mainVars
  <2>0. jobs \in Seq(Jobs) /\ jobNum \in Int
    BY DEF TypeOK
  <2>1. CASE MainStep
    <3>1. CASE CloseQueue
      <4>1. CASE waitArg = 0
        BY <2>0, <3>1, <4>1 DEF CloseQueue
      <4>2. CASE waitArg # 0
        <5>1. waitArg = 1 /\ jobNum <= 0 /\ jobNum = Len(jobs)
          BY <3>1, <4>2 DEF CloseQueue, TypeOK
        <5>2. Len(jobs) = 0
          BY <2>0, <5>1
        <5> QED
          BY <3>1, <4>2, <5>2 DEF CloseQueue
      <4> QED
        BY <4>1, <4>2
    <3>2. CASE InitThread \/ InitReturn \/ CloseBroadcast \/ CancelHead \/ JoinHead \/ DestroyReturn
      BY <3>2 DEF InitThread, InitReturn, CloseBroadcast, CancelHead, JoinHead, DestroyReturn
    <3> QED
      BY <2>1, <3>1, <3>2 DEF MainStep
  <2>2. ASSUME NEW wait \in WaitModes, DestroyBegin(wait) PROVE CountMatches'
    BY <2>2 DEF DestroyBegin
  <2>3. ASSUME NEW c \in Clients, ClientStep(c) PROVE CountMatches'
    <3>1. CASE AddEnqueue(c)
      <4>1. Len(jobs') = Len(jobs) + 1
        BY <2>0, <3>1 DEF AddEnqueue
      <4> QED
        BY <2>0, <3>1, <4>1 DEF AddEnqueue
    <3>2. CASE GrowThread(c) \/ AddBroadcast(c)
      BY <3>2 DEF GrowThread, AddBroadcast
    <3> QED
      BY <2>3, <3>1, <3>2 DEF ClientStep
  <2>4. ASSUME NEW c \in Clients, NEW j \in Jobs, AddCheck(c, j) PROVE CountMatches'
    BY <2>4 DEF AddCheck
  <2>5. ASSUME NEW c \in Clients, NEW n \in 1..MaxGrow, GrowCheck(c, n) PROVE CountMatches'
    BY <2>5 DEF GrowCheck
  <2>6. ASSUME NEW w \in Workers, WorkerStep(w) \/ SpuriousWakeup(w) PROVE CountMatches'
    <3>1. CASE Take(w)
      <4>1. jobs # <<>> => Len(Tail(jobs)) = Len(jobs) - 1
        BY <2>0
      <4> QED
        BY <2>0, <3>1, <4>1 DEF Take, GetJob
    <3>2. CASE Sleep(w) \/ DieHoldingMutex(w) \/ Run(w) \/ SpuriousWakeup(w)
      BY <3>2 DEF Sleep, DieHoldingMutex, Run, SpuriousWakeup
    <3> QED
      BY <2>6, <3>1, <3>2 DEF WorkerStep
  <2>7. CASE UNCHANGED vars
    BY <2>7 DEF vars
  <2> QED
    BY <2>1, <2>2, <2>3, <2>4, <2>5, <2>6, <2>7 DEF Next
<1> QED
  BY <1>1, <1>2, TypeCorrect, PTL DEF Spec

-----------------------------------------------------------------------------
LEMMA AppendFacts ==
    ASSUME NEW S, NEW s \in Seq(S), NEW x \in S
    PROVE  /\ ToSet(Append(s, x)) = ToSet(s) \cup {x}
           /\ IsInjective(s) /\ x \notin ToSet(s) => IsInjective(Append(s, x))
BY DEF ToSet, IsInjective

LEMMA TailFacts ==
    ASSUME NEW S, NEW s \in Seq(S), s # <<>>
    PROVE  /\ Head(s) \in S /\ Tail(s) \in Seq(S)
           /\ ToSet(s) = {Head(s)} \cup ToSet(Tail(s))
           /\ IsInjective(s) => Head(s) \notin ToSet(Tail(s)) /\ IsInjective(Tail(s))
<1>1. Len(s) \in Nat \ {0} /\ Head(s) = s[1]
  OBVIOUS
<1>2. Len(Tail(s)) = Len(s) - 1 /\ \A i \in 1..(Len(s) - 1) : Tail(s)[i] = s[i + 1]
  OBVIOUS
<1>3. ToSet(s) \subseteq {Head(s)} \cup ToSet(Tail(s))
  <2> SUFFICES ASSUME NEW i \in 1..Len(s), i # 1 PROVE s[i] \in ToSet(Tail(s))
    BY <1>1 DEF ToSet
  <2>1. i - 1 \in 1..(Len(s) - 1) /\ Tail(s)[i - 1] = s[i]
    BY <1>1, <1>2
  <2>2. DOMAIN Tail(s) = 1..(Len(s) - 1)
    BY <1>1, <1>2, Tail(s) \in Seq(S)
  <2> QED
    BY <2>1, <2>2 DEF ToSet
<1>4. {Head(s)} \cup ToSet(Tail(s)) \subseteq ToSet(s)
  BY <1>1, <1>2 DEF ToSet
<1>5. ASSUME IsInjective(s) PROVE Head(s) \notin ToSet(Tail(s)) /\ IsInjective(Tail(s))
  BY <1>1, <1>2, <1>5 DEF ToSet, IsInjective
<1> QED
  BY <1>1, <1>3, <1>4, <1>5

LEMMA EmptySet == ToSet(<<>>) = {} /\ IsInjective(<<>>)
BY DEF ToSet, IsInjective

\* The steps that move no job: they only change where threads are.
LEMMA NoJobMoves ==
    ASSUME TypeOK, OneOwnerPerJob, UNCHANGED <<jobs, cur, client, done, freed, accepted>>,
           \A w \in Workers : pc[w] = "run" => pc'[w] = "run"
    PROVE  OneOwnerPerJob'
BY DEF OneOwnerPerJob, ListedOnce, HeldOnce, AddedOnce, StillToHand, HandedKnown,
       Handed, Held, Adding

\* A job is never in two places at once, however adds, workers and destroy
\* interleave: enqueue (thread-pool.c 173-182), take (133-145), run (220-224)
\* and free (107-113) pass it on and keep no copy.
THEOREM OneOwner == Spec => []OneOwnerPerJob
<1>1. Init => OneOwnerPerJob
  BY EmptySet DEF Init, OneOwnerPerJob, ListedOnce, HeldOnce, AddedOnce, StillToHand,
     HandedKnown, Handed, Held, Adding, Idle
<1>2. TypeOK /\ OneOwnerPerJob /\ [Next]_vars => OneOwnerPerJob'
  <2> SUFFICES ASSUME TypeOK, OneOwnerPerJob, [Next]_vars PROVE OneOwnerPerJob'
    OBVIOUS
  <2> USE DEF queueVars, workerVars, mainVars, historyVars
  <2>0. /\ jobs \in Seq(Jobs) /\ NoOne \notin Jobs
        /\ pc \in [Workers -> {"none", "lock", "wait", "relock", "run", "dead"}]
        /\ cur \in [Workers -> Jobs \cup {NoOne}] /\ client \in [Clients -> Calls]
    BY JobPoolAssumption DEF TypeOK
  <2>1. ASSUME NEW c \in Clients, NEW j \in Jobs, AddCheck(c, j) PROVE OneOwnerPerJob'
    <3>1. CASE UNCHANGED client
      BY <2>1, <3>1, NoJobMoves DEF AddCheck
    <3>2. CASE client' = [client EXCEPT ![c] = [op |-> "enqueue", job |-> j]]
      <4>1. j \notin Handed
        BY <2>1 DEF AddCheck, Fresh, OneOwnerPerJob, HandedKnown, Adding
      <4>2. client[c].op = "idle" /\ \A d \in Clients : Adding(d) => client[d].job # j
        BY <2>1 DEF AddCheck, MayCall, Fresh, Idle
      <4>3. UNCHANGED <<Handed, jobs, cur, pc, accepted>>
        BY <2>1 DEF AddCheck, Handed, Held
      <4>4. \A d \in Clients : d # c => client'[d] = client[d]
        BY <2>0, <3>2
      <4>5. client'[c].op = "enqueue" /\ client'[c].job = j
        BY <2>0, <3>2
      <4>6. (ListedOnce /\ HeldOnce)'
        BY <4>3 DEF OneOwnerPerJob, ListedOnce, HeldOnce
      <4>7. AddedOnce'
        BY <4>2, <4>4, <4>5 DEF OneOwnerPerJob, AddedOnce, Adding
      <4>8. StillToHand'
        BY <4>1, <4>3, <4>4, <4>5 DEF OneOwnerPerJob, StillToHand
      <4>9. HandedKnown'
        BY <4>2, <4>3, <4>4 DEF OneOwnerPerJob, HandedKnown
      <4> QED
        BY <4>6, <4>7, <4>8, <4>9 DEF OneOwnerPerJob
    <3> QED
      BY <2>1, <3>1, <3>2 DEF AddCheck
  <2>2. ASSUME NEW c \in Clients, AddEnqueue(c) PROVE OneOwnerPerJob'
    <3> DEFINE j == client[c].job
    <3>1. client[c].op = "enqueue" /\ j \in Jobs /\ j \notin Handed
      BY <2>0, <2>2, CallFields DEF AddEnqueue, OneOwnerPerJob, StillToHand
    <3>2. ToSet(jobs') = ToSet(jobs) \cup {j} /\ IsInjective(jobs')
      BY <2>0, <2>2, <3>1, AppendFacts DEF AddEnqueue, Handed, OneOwnerPerJob, ListedOnce
    <3>3. Handed' = Handed \cup {j} /\ UNCHANGED <<cur, pc, accepted>>
      BY <2>2, <3>2 DEF AddEnqueue, Handed, Held
    <3>4. /\ \A d \in Clients : d # c => client'[d] = client[d]
          /\ client'[c].op = "broadcast" /\ client'[c].job = j
      BY <2>0, <2>2, <3>1, CallFields DEF AddEnqueue
    <3>5. ListedOnce'
      BY <3>2 DEF ListedOnce
    <3>6. HeldOnce'
      BY <2>0, <3>1, <3>2, <3>3 DEF OneOwnerPerJob, HeldOnce, Handed, Held
    <3>7. AddedOnce'
      BY <3>1, <3>4 DEF OneOwnerPerJob, AddedOnce, Adding
    <3>8. StillToHand'
      BY <3>1, <3>3, <3>4 DEF OneOwnerPerJob, StillToHand, AddedOnce, Adding
    <3>9. HandedKnown'
      BY <3>1, <3>3, <3>4 DEF OneOwnerPerJob, HandedKnown
    <3> QED
      BY <3>5, <3>6, <3>7, <3>8, <3>9 DEF OneOwnerPerJob
  <2>3. ASSUME NEW c \in Clients, AddBroadcast(c) PROVE OneOwnerPerJob'
    <3>1. /\ UNCHANGED <<jobs, cur, Handed>>
          /\ \A w \in Workers : pc[w] = "run" => pc'[w] = "run"
          /\ accepted' = accepted \cup {client[c].job}
      BY <2>0, <2>3 DEF AddBroadcast, Broadcast, Handed, Held
    <3>2. /\ \A d \in Clients : d # c => client'[d] = client[d]
          /\ client'[c].op = "idle" /\ client[c].op = "broadcast"
      BY <2>0, <2>3 DEF AddBroadcast, Idle
    <3>3. (ListedOnce /\ HeldOnce)'
      BY <2>0, <3>1 DEF OneOwnerPerJob, ListedOnce, HeldOnce
    <3>4. (AddedOnce /\ StillToHand)'
      BY <3>1, <3>2 DEF OneOwnerPerJob, AddedOnce, StillToHand, Adding
    <3>5. HandedKnown'
      BY <3>1, <3>2 DEF OneOwnerPerJob, HandedKnown
    <3> QED
      BY <3>3, <3>4, <3>5 DEF OneOwnerPerJob
  <2>4. ASSUME NEW w \in Workers, Take(w) PROVE OneOwnerPerJob'
    <3>1. cur[w] = NoOne
      BY <2>0, <2>4 DEF Take, OneOwnerPerJob, HeldOnce
    <3>2. CASE jobs = <<>>
      <4>1. cur' = cur
        BY <2>0, <2>4, <3>1, <3>2 DEF Take, GetJob
      <4> QED
        BY <2>0, <2>4, <3>2, <4>1, NoJobMoves DEF Take, GetJob
    <3>3. CASE jobs # <<>>
      <4> DEFINE j == Head(jobs)
      <4>1. /\ j \in Jobs /\ ToSet(jobs) = {j} \cup ToSet(Tail(jobs))
            /\ j \notin ToSet(Tail(jobs)) /\ IsInjective(Tail(jobs))
        BY <2>0, <3>3, TailFacts DEF OneOwnerPerJob, ListedOnce
      <4>2. /\ jobs' = Tail(jobs) /\ cur' = [cur EXCEPT ![w] = j]
            /\ pc' = [pc EXCEPT ![w] = "run"] /\ UNCHANGED <<client, done, freed, accepted>>
        BY <2>4, <3>3 DEF Take, GetJob
      <4>3. Held' = Held \cup {j}
        BY <2>0, <3>1, <4>1, <4>2 DEF Held
      <4>4. Handed' = Handed
        BY <4>1, <4>2, <4>3 DEF Handed
      <4>5. ListedOnce'
        BY <4>1, <4>2 DEF ListedOnce
      <4>6. HeldOnce'
        BY <2>0, <4>1, <4>2 DEF OneOwnerPerJob, HeldOnce
      <4>7. (AddedOnce /\ StillToHand /\ HandedKnown)'
        BY <4>2, <4>4 DEF OneOwnerPerJob, AddedOnce, StillToHand, HandedKnown, Adding
      <4> QED
        BY <4>5, <4>6, <4>7 DEF OneOwnerPerJob
    <3> QED
      BY <3>2, <3>3
  <2>5. ASSUME NEW w \in Workers, Run(w) PROVE OneOwnerPerJob'
    <3>1. /\ cur' = [cur EXCEPT ![w] = NoOne] /\ UNCHANGED <<jobs, client, freed, accepted>>
          /\ done' = done \cup ({cur[w]} \ {NoOne}) /\ \A v \in Workers : v # w => pc'[v] = pc[v]
      BY <2>0, <2>5 DEF Run
    <3>2. Held' \cup done' = Held \cup done
      BY <2>0, <3>1 DEF Held
    <3>3. Handed' = Handed
      BY <3>1, <3>2 DEF Handed
    <3>4. (ListedOnce /\ HeldOnce)'
      <4>1. \A v \in Workers : cur'[v] = IF v = w THEN NoOne ELSE cur[v]
        BY <2>0, <3>1
      <4>2. NoOne \notin ToSet(jobs)
        BY <2>0, ToSetTyped
      <4> QED
        BY <3>1, <4>1, <4>2 DEF OneOwnerPerJob, ListedOnce, HeldOnce
    <3>5. (AddedOnce /\ StillToHand /\ HandedKnown)'
      BY <3>1, <3>3 DEF OneOwnerPerJob, AddedOnce, StillToHand, HandedKnown, Adding
    <3> QED
      BY <3>4, <3>5 DEF OneOwnerPerJob
  <2>6. CASE CloseQueue
    <3>1. CASE waitArg = 0
      <4>1. jobs' = <<>> /\ freed' = freed \cup ToSet(jobs) /\ UNCHANGED <<cur, pc, client, done, accepted>>
        BY <2>6, <3>1 DEF CloseQueue
      <4>2. Handed' = Handed
        BY <4>1, EmptySet DEF Handed, Held
      <4>3. (ListedOnce /\ HeldOnce)'
        BY <4>1, EmptySet DEF OneOwnerPerJob, ListedOnce, HeldOnce
      <4>4. (AddedOnce /\ StillToHand /\ HandedKnown)'
        BY <4>1, <4>2 DEF OneOwnerPerJob, AddedOnce, StillToHand, HandedKnown, Adding
      <4> QED
        BY <4>3, <4>4 DEF OneOwnerPerJob
    <3>2. CASE waitArg # 0
      BY <2>6, <3>2, NoJobMoves DEF CloseQueue
    <3> QED
      BY <3>1, <3>2
  <2>7. ASSUME NEW c \in Clients, (\E n \in 1..MaxGrow : GrowCheck(c, n)) \/ GrowThread(c)
        PROVE  OneOwnerPerJob'
    <3>1. /\ \A d \in Clients : d # c => client'[d] = client[d]
          /\ client'[c].op \in {"idle", "grow"} /\ client[c].op \in {"idle", "grow"}
      BY <2>0, <2>7 DEF GrowCheck, GrowThread, MayCall, Idle, Growing
    <3>2. UNCHANGED <<jobs, cur, Handed, accepted>>
      BY <2>7 DEF GrowCheck, GrowThread, CreateThread, Handed, Held
    <3>3. \A w \in Workers : pc[w] = "run" => pc'[w] = "run"
      BY <2>0, <2>7 DEF GrowCheck, GrowThread, CreateThread
    <3>4. (ListedOnce /\ HeldOnce)'
      BY <2>0, <3>2, <3>3 DEF OneOwnerPerJob, ListedOnce, HeldOnce
    <3>5. (AddedOnce /\ StillToHand /\ HandedKnown)'
      BY <3>1, <3>2 DEF OneOwnerPerJob, AddedOnce, StillToHand, HandedKnown, Adding
    <3> QED
      BY <3>4, <3>5 DEF OneOwnerPerJob
  <2>8. CASE InitThread \/ InitReturn \/ CloseBroadcast \/ CancelHead \/ JoinHead \/ DestroyReturn
    BY <2>0, <2>8, NoJobMoves DEF InitThread, CreateThread, InitReturn, CloseBroadcast, Broadcast,
       CancelHead, JoinHead, DestroyReturn
  <2>9. ASSUME NEW wait \in WaitModes, DestroyBegin(wait) PROVE OneOwnerPerJob'
    BY <2>9, NoJobMoves DEF DestroyBegin
  <2>10. ASSUME NEW w \in Workers, Sleep(w) \/ DieHoldingMutex(w) \/ SpuriousWakeup(w)
         PROVE  OneOwnerPerJob'
    BY <2>0, <2>10, NoJobMoves DEF Sleep, DieHoldingMutex, SpuriousWakeup
  <2>11. CASE UNCHANGED vars
    BY <2>11, NoJobMoves DEF vars
  <2> QED
    BY <2>1, <2>2, <2>3, <2>4, <2>5, <2>6, <2>7, <2>8, <2>9, <2>10, <2>11
       DEF Next, MainStep, ClientStep, WorkerStep
<1> QED
  BY <1>1, <1>2, TypeCorrect, PTL DEF Spec

-----------------------------------------------------------------------------
LEMMA SameToSet == ASSUME NEW s PROVE Service!ToSet(s) = ToSet(s)
BY DEF Service!ToSet, ToSet

\* thread-pool.c implements the job service: a client sees one FIFO line whose
\* jobs start in order, at most once, and run to their end, although workers
\* are cancelled, the pool grows and destroy races the adds.
THEOREM Refinement == Spec => ImplementsJobService
<1>1. Init => Service!Init
  BY DEF Init, Service!Init, Held
<1>2. TypeOK /\ OneOwnerPerJob /\ [Next]_vars => [Service!Next]_(Service!vars)
  <2> SUFFICES ASSUME TypeOK, OneOwnerPerJob, [Next]_vars
               PROVE  Service!Next \/ UNCHANGED Service!vars
    OBVIOUS
  <2> USE DEF queueVars, workerVars, mainVars, historyVars
  <2>0. /\ jobs \in Seq(Jobs) /\ NoOne \notin Jobs
        /\ cur \in [Workers -> Jobs \cup {NoOne}] /\ client \in [Clients -> Calls]
    BY JobPoolAssumption DEF TypeOK
  <2>1. ASSUME NEW c \in Clients, AddEnqueue(c) PROVE Service!Next
    <3>1. client[c].job \in Jobs /\ client[c].job \notin Handed
      BY <2>0, <2>1, CallFields DEF AddEnqueue, OneOwnerPerJob, StillToHand
    <3>2. Service!Submit(client[c].job)
      BY <2>1, <3>1, SameToSet DEF AddEnqueue, Handed, Held, Service!Submit, Service!Known
    <3> QED
      BY <3>1, <3>2 DEF Service!Next
  <2>2. ASSUME NEW w \in Workers, Take(w) PROVE Service!Next \/ UNCHANGED Service!vars
    <3>1. cur[w] = NoOne
      BY <2>0, <2>2 DEF Take, OneOwnerPerJob, HeldOnce
    <3>2. CASE jobs = <<>>
      BY <2>0, <2>2, <3>1, <3>2 DEF Take, GetJob, Service!vars, Held
    <3>3. CASE jobs # <<>>
      <4>1. Head(jobs) \in Jobs
        BY <2>0, <3>3, TailFacts
      <4>2. Held' = Held \cup {Head(jobs)}
        BY <2>0, <2>2, <3>1, <3>3, <4>1 DEF Take, GetJob, Held
      <4>3. Service!Start
        BY <2>2, <3>3, <4>2 DEF Take, GetJob, Service!Start
      <4> QED
        BY <4>3 DEF Service!Next
    <3> QED
      BY <3>2, <3>3
  <2>3. ASSUME NEW w \in Workers, Run(w) PROVE Service!Next \/ UNCHANGED Service!vars
    <3>1. CASE cur[w] = NoOne
      BY <2>0, <2>3, <3>1 DEF Run, Held, Service!vars
    <3>2. CASE cur[w] # NoOne
      <4>1. cur[w] \in Jobs /\ cur[w] \in Held
        BY <2>0, <3>2 DEF Held
      <4>2. Held' = Held \ {cur[w]}
        BY <2>0, <2>3, <3>2 DEF Run, Held, OneOwnerPerJob, HeldOnce
      <4>3. Service!Finish(cur[w])
        BY <2>3, <3>2, <4>1, <4>2 DEF Run, Service!Finish
      <4> QED
        BY <4>1, <4>3 DEF Service!Next
    <3> QED
      BY <3>1, <3>2
  <2>4. CASE CloseQueue
    <3>1. CASE waitArg = 0
      <4>1. Service!Discard
        BY <2>4, <3>1, SameToSet DEF CloseQueue, Held, Service!Discard
      <4> QED
        BY <4>1 DEF Service!Next
    <3>2. CASE waitArg # 0
      BY <2>4, <3>2 DEF CloseQueue, Held, Service!vars
    <3> QED
      BY <3>1, <3>2
  <2>5. CASE InitThread \/ InitReturn \/ CloseBroadcast \/ CancelHead \/ JoinHead \/ DestroyReturn
    BY <2>5 DEF InitThread, CreateThread, InitReturn, CloseBroadcast, Broadcast, CancelHead, JoinHead,
       DestroyReturn, Held, Service!vars
  <2>6. ASSUME NEW wait \in WaitModes, DestroyBegin(wait) PROVE UNCHANGED Service!vars
    BY <2>6 DEF DestroyBegin, Held, Service!vars
  <2>7. ASSUME NEW c \in Clients,
               \/ \E j \in Jobs : AddCheck(c, j)
               \/ \E n \in 1..MaxGrow : GrowCheck(c, n)
               \/ GrowThread(c)
               \/ AddBroadcast(c)
        PROVE  UNCHANGED Service!vars
    BY <2>7 DEF AddCheck, GrowCheck, GrowThread, CreateThread, AddBroadcast, Broadcast, Held, Service!vars
  <2>8. ASSUME NEW w \in Workers, Sleep(w) \/ DieHoldingMutex(w) \/ SpuriousWakeup(w)
        PROVE  UNCHANGED Service!vars
    BY <2>8 DEF Sleep, DieHoldingMutex, SpuriousWakeup, Held, Service!vars
  <2>9. CASE UNCHANGED vars
    BY <2>9 DEF vars, Held, Service!vars
  <2> QED
    BY <2>1, <2>2, <2>3, <2>4, <2>5, <2>6, <2>7, <2>8, <2>9 DEF Next, MainStep, ClientStep, WorkerStep
<1> QED
  BY <1>1, <1>2, TypeCorrect, OneOwner, PTL DEF Spec, ImplementsJobService, Service!Spec

-----------------------------------------------------------------------------
\* Whoever makes job_num leave 0 owes a broadcast, so no worker sleeps while
\* there is something to do and no wake-up on its way (thread-pool.c 116, 126,
\* 184, 209-213).
THEOREM NoMissedWork == Spec => []NoSleeperMissesWork
<1>1. Init => NoSleeperMissesWork
  BY DEF Init, NoSleeperMissesWork
<1>2. TypeOK /\ NoSleeperMissesWork /\ [Next]_vars => NoSleeperMissesWork'
  <2> SUFFICES ASSUME TypeOK, NoSleeperMissesWork, [Next]_vars PROVE NoSleeperMissesWork'
    OBVIOUS
  <2> USE DEF NoSleeperMissesWork, BroadcastPending, queueVars, workerVars, mainVars, historyVars
  <2>0. /\ pc \in [Workers -> {"none", "lock", "wait", "relock", "run", "dead"}]
        /\ client \in [Clients -> Calls]
    BY DEF TypeOK
  <2>1. CASE InitThread \/ InitReturn \/ CancelHead \/ JoinHead \/ DestroyReturn
    BY <2>0, <2>1 DEF InitThread, CreateThread, InitReturn, CancelHead, JoinHead, DestroyReturn
  <2>2. CASE CloseQueue \/ CloseBroadcast
    BY <2>0, <2>2 DEF CloseQueue, CloseBroadcast, Broadcast
  <2>3. ASSUME NEW wait \in WaitModes, DestroyBegin(wait) PROVE NoSleeperMissesWork'
    BY <2>3 DEF DestroyBegin
  <2>4. ASSUME NEW c \in Clients, AddEnqueue(c) PROVE NoSleeperMissesWork'
    <3>1. client'[c].op = "broadcast"
      BY <2>0, <2>4, CallFields DEF AddEnqueue
    <3> QED
      BY <3>1
  <2>5. ASSUME NEW c \in Clients, AddBroadcast(c) PROVE NoSleeperMissesWork'
    BY <2>0, <2>5 DEF AddBroadcast, Broadcast
  <2>6. ASSUME NEW c \in Clients, GrowThread(c) \/ (\E n \in 1..MaxGrow : GrowCheck(c, n))
        PROVE  NoSleeperMissesWork'
    <3>1. UNCHANGED <<jobNum, mpc>> /\ \A w \in Workers : pc'[w] = "wait" => pc[w] = "wait"
      BY <2>0, <2>6 DEF GrowThread, GrowCheck, CreateThread
    <3>2. client[c].op # "broadcast" /\ \A d \in Clients : d # c => client'[d] = client[d]
      BY <2>0, <2>6 DEF GrowThread, GrowCheck, MayCall, Idle
    <3> QED
      BY <3>1, <3>2
  <2>7. ASSUME NEW c \in Clients, NEW j \in Jobs, AddCheck(c, j) PROVE NoSleeperMissesWork'
    <3>1. UNCHANGED <<jobNum, mpc, pc>>
      BY <2>7 DEF AddCheck
    <3>2. client[c].op # "broadcast" /\ \A d \in Clients : d # c => client'[d] = client[d]
      BY <2>0, <2>7 DEF AddCheck, MayCall, Idle
    <3> QED
      BY <3>1, <3>2
  <2>8. ASSUME NEW w \in Workers, Take(w) PROVE NoSleeperMissesWork'
    BY <2>0, <2>8 DEF Take
  <2>9. ASSUME NEW w \in Workers, WorkerStep(w) \/ SpuriousWakeup(w), ~Take(w) PROVE NoSleeperMissesWork'
    BY <2>0, <2>9 DEF WorkerStep, Sleep, DieHoldingMutex, Run, SpuriousWakeup
  <2>10. CASE UNCHANGED vars
    BY <2>10 DEF vars
  <2> QED
    BY <2>1, <2>2, <2>3, <2>4, <2>5, <2>6, <2>7, <2>8, <2>9, <2>10 DEF Next, MainStep, ClientStep
<1> QED
  BY <1>1, <1>2, TypeCorrect, PTL DEF Spec

-----------------------------------------------------------------------------
Living(w) == pc[w] \notin {"none", "dead"}

\* What destroy relies on.  Nobody is cancelled before the queue is closed;
\* what is on the list of a closed queue came late; until then nobody sleeps
\* once the closing broadcast is out; a living worker is on the thread list;
\* only destroy(0) frees jobs; an accepted job has left its client's hands;
\* and what runs after destroy has returned came late.
DestroyInv ==
    /\ \A w \in Workers : cancel[w] => mpc \in {"cancel", "join", "down"}
    /\ Closed => ToSet(jobs) \subseteq late
    /\ mpc \in {"cancel", "join", "down"} /\ late = {} => \A w \in Workers : pc[w] # "wait"
    /\ \A w \in Workers : Living(w) => w \in ToSet(threads)
    /\ mpc \in {"init", "up", "close"} \/ waitArg = 1 => freed = {}
    /\ accepted \subseteq Handed
    /\ \A c \in Clients : client[c].op = "broadcast" => client[c].job \in Handed
    /\ mpc = "down" => Held \subseteq late

\* A closed queue that nobody added to holds nothing, and job_num says -1.
LEMMA ClosedAndEmpty ==
    ASSUME TypeOK, CountMatches, DestroyInv, Closed, late = {}
    PROVE  jobNum = -1
<1>1. jobs \in Seq(Jobs) /\ ToSet(jobs) = {}
  BY DEF TypeOK, DestroyInv
<1>2. Len(jobs) = 0
  BY <1>1 DEF ToSet
<1> QED
  BY <1>2 DEF CountMatches

LEMMA DestroyStep ==
    ASSUME TypeOK, CountMatches, OneOwnerPerJob, DestroyInv, [Next]_vars
    PROVE  DestroyInv'
<1> USE JobPoolAssumption DEF DestroyInv, Closed, Living, queueVars, workerVars, mainVars, historyVars
<1>0. /\ pc \in [Workers -> {"none", "lock", "wait", "relock", "run", "dead"}]
      /\ client \in [Clients -> Calls] /\ cancel \in [Workers -> BOOLEAN]
      /\ cur \in [Workers -> Jobs \cup {NoOne}] /\ threads \in Seq(Workers) /\ jobs \in Seq(Jobs)
  BY DEF TypeOK
<1>1. ASSUME NEW w \in Workers, CreateThread(w),
             UNCHANGED <<jobs, done, freed, accepted, late, mpc, waitArg>>,
             \A c \in Clients : client'[c] = client[c] \/ client'[c].op \in {"idle", "grow"}
      PROVE  DestroyInv'
  <2>1. ToSet(threads') = ToSet(threads) \cup {w}
    BY <1>0, <1>1, AppendFacts DEF CreateThread
  <2>2. UNCHANGED <<Handed, Held, cancel>> /\ pc' = [pc EXCEPT ![w] = "lock"]
    BY <1>1 DEF CreateThread, Handed, Held
  <2> QED
    BY <1>0, <1>1, <2>1, <2>2
<1>2. CASE InitThread
  BY <1>1, <1>2 DEF InitThread
<1>3. CASE InitReturn \/ CloseBroadcast \/ CancelHead
  <2>1. UNCHANGED <<Handed, Held>>
    BY <1>3 DEF InitReturn, CloseBroadcast, Broadcast, CancelHead, Handed, Held
  <2> QED
    BY <1>0, <1>3, <2>1 DEF InitReturn, CloseBroadcast, Broadcast, CancelHead
<1>4. CASE DestroyReturn
  <2>1. UNCHANGED <<Handed, Held>>
    BY <1>4 DEF DestroyReturn, Handed, Held
  <2>2. Held = {}
    BY <1>0, <1>4, EmptySet DEF DestroyReturn, Held, OneOwnerPerJob, HeldOnce
  <2> QED
    BY <1>0, <1>4, <2>1, <2>2 DEF DestroyReturn
<1>5. CASE CloseQueue
  <2>1. jobs' = <<>>
    <3>1. CASE waitArg = 0
      BY <1>5, <3>1 DEF CloseQueue
    <3>2. CASE waitArg # 0
      <4>1. Len(jobs) = 0
        BY <1>0, <1>5, <3>2 DEF CloseQueue, CountMatches, TypeOK
      <4> QED
        BY <1>0, <1>5, <3>2, <4>1 DEF CloseQueue
    <3> QED
      BY <3>1, <3>2
  <2>2. UNCHANGED <<Handed, Held>>
    <3>1. UNCHANGED Held
      BY <1>5 DEF CloseQueue, Held
    <3>2. CASE waitArg = 0
      BY <1>5, <3>1, <3>2, EmptySet DEF CloseQueue, Handed
    <3>3. CASE waitArg # 0
      BY <1>5, <3>1, <3>3 DEF CloseQueue, Handed
    <3> QED
      BY <3>1, <3>2, <3>3
  <2>3. waitArg' = 1 => freed' = {}
    BY <1>5 DEF CloseQueue
  <2> QED
    BY <1>0, <1>5, <2>1, <2>2, <2>3, EmptySet DEF CloseQueue
<1>6. CASE JoinHead
  <2>1. threads # <<>> /\ threads' = Tail(threads) /\ pc[Head(threads)] = "dead"
    BY <1>6 DEF JoinHead, TypeOK
  <2>2. ToSet(threads) = {Head(threads)} \cup ToSet(threads')
    BY <1>0, <2>1, TailFacts
  <2>3. UNCHANGED <<Handed, Held>>
    BY <1>6 DEF JoinHead, Handed, Held
  <2> QED
    BY <1>0, <1>6, <2>1, <2>2, <2>3 DEF JoinHead
<1>7. ASSUME NEW wait \in WaitModes, DestroyBegin(wait) PROVE DestroyInv'
  <2>1. UNCHANGED <<Handed, Held>>
    BY <1>7 DEF DestroyBegin, Handed, Held
  <2> QED
    BY <1>7, <2>1 DEF DestroyBegin
<1>8. ASSUME NEW c \in Clients, GrowThread(c) PROVE DestroyInv'
  <2>1. \A d \in Clients : client'[d] = client[d] \/ client'[d].op \in {"idle", "grow"}
    BY <1>0, <1>8 DEF GrowThread, Idle, Growing
  <2>2. CASE \E w \in Workers : CreateThread(w)
    BY <1>1, <1>8, <2>1, <2>2 DEF GrowThread
  <2>3. CASE UNCHANGED <<threads, workerVars>>
    <3>1. UNCHANGED <<Handed, Held>>
      BY <1>8, <2>3 DEF GrowThread, Handed, Held
    <3> QED
      BY <1>8, <2>1, <2>3, <3>1 DEF GrowThread
  <2> QED
    BY <1>8, <2>2, <2>3 DEF GrowThread
<1>9. ASSUME NEW c \in Clients, AddEnqueue(c) PROVE DestroyInv'
  <2> DEFINE j == client[c].job
  <2>1. client[c].op = "enqueue" /\ j \in Jobs
    BY <1>0, <1>9, CallFields DEF AddEnqueue
  <2>2. ToSet(jobs') = ToSet(jobs) \cup {j}
    BY <1>0, <1>9, <2>1, AppendFacts DEF AddEnqueue
  <2>3. Handed' = Handed \cup {j} /\ UNCHANGED Held
    BY <1>9, <2>2 DEF AddEnqueue, Handed, Held
  <2>4. /\ \A d \in Clients : d # c => client'[d] = client[d]
        /\ client'[c].op = "broadcast" /\ client'[c].job = j
    BY <1>0, <1>9, <2>1, CallFields DEF AddEnqueue
  <2>5. (Closed => j \in late') /\ late \subseteq late'
    BY <1>9 DEF AddEnqueue
  <2>6. UNCHANGED <<pc, cancel, threads, mpc, waitArg, freed, accepted>>
    BY <1>9 DEF AddEnqueue
  <2> QED
    BY <2>2, <2>3, <2>4, <2>5, <2>6
<1>10. ASSUME NEW c \in Clients, AddBroadcast(c) PROVE DestroyInv'
  <2>1. client[c].job \in Handed
    BY <1>10 DEF AddBroadcast
  <2>2. UNCHANGED <<Handed, Held>>
    BY <1>10 DEF AddBroadcast, Handed, Held
  <2>3. client' = [client EXCEPT ![c] = Idle]
    BY <1>10 DEF AddBroadcast
  <2>4. \A w \in Workers : /\ pc'[w] \notin {"none", "dead"} => pc[w] \notin {"none", "dead"}
                           /\ pc'[w] # "wait"
    BY <1>0, <1>10 DEF AddBroadcast, Broadcast
  <2> QED
    BY <1>0, <1>10, <2>1, <2>2, <2>3, <2>4 DEF AddBroadcast, Idle
<1>11. ASSUME NEW c \in Clients, (\E j \in Jobs : AddCheck(c, j)) \/ (\E n \in 1..MaxGrow : GrowCheck(c, n))
       PROVE  DestroyInv'
  <2>1. UNCHANGED <<Handed, Held>>
    BY <1>11 DEF AddCheck, GrowCheck, Handed, Held
  <2>2. \A d \in Clients : client'[d] = client[d] \/ client'[d].op \in {"enqueue", "grow"}
    BY <1>0, <1>11 DEF AddCheck, GrowCheck, Growing
  <2> QED
    BY <1>11, <2>1, <2>2 DEF AddCheck, GrowCheck
<1>12. ASSUME NEW w \in Workers, Take(w) PROVE DestroyInv'
  <2>1. cur[w] = NoOne /\ pc[w] \in {"lock", "relock"} /\ pc' = [pc EXCEPT ![w] = "run"]
    BY <1>0, <1>12 DEF Take, OneOwnerPerJob, HeldOnce
  <2>2. /\ Handed \subseteq Handed' /\ ToSet(jobs') \subseteq ToSet(jobs)
        /\ Held' \subseteq Held \cup ToSet(jobs)
    <3>1. CASE jobs = <<>>
      BY <1>0, <1>12, <2>1, <3>1 DEF Take, GetJob, Handed, Held
    <3>2. CASE jobs # <<>>
      <4>1. ToSet(jobs) = {Head(jobs)} \cup ToSet(Tail(jobs)) /\ Head(jobs) \in Jobs
        BY <1>0, <3>2, TailFacts
      <4>2. Held' = Held \cup {Head(jobs)} /\ jobs' = Tail(jobs)
        BY <1>0, <1>12, <2>1, <3>2, <4>1 DEF Take, GetJob, Held
      <4>3. Handed \subseteq Handed'
        BY <1>12, <4>1, <4>2 DEF Take, Handed
      <4> QED
        BY <4>1, <4>2, <4>3
    <3> QED
      BY <3>1, <3>2
  <2> QED
    BY <1>0, <1>12, <2>1, <2>2 DEF Take
<1>13. ASSUME NEW w \in Workers, Run(w) PROVE DestroyInv'
  <2>1. Handed' = Handed /\ Held' \subseteq Held
    BY <1>0, <1>13 DEF Run, Handed, Held
  <2> QED
    BY <1>0, <1>13, <2>1 DEF Run
<1>14. ASSUME NEW w \in Workers, Sleep(w) PROVE DestroyInv'
  <2>1. UNCHANGED <<Handed, Held>>
    BY <1>14 DEF Sleep, Handed, Held
  <2>2. ~(Closed /\ late = {})
    BY <1>14, ClosedAndEmpty DEF Sleep
  <2> QED
    BY <1>0, <1>14, <2>1, <2>2 DEF Sleep
<1>15. ASSUME NEW w \in Workers, DieHoldingMutex(w) \/ SpuriousWakeup(w) PROVE DestroyInv'
  <2>1. UNCHANGED <<Handed, Held>>
    BY <1>15 DEF DieHoldingMutex, SpuriousWakeup, Handed, Held
  <2> QED
    BY <1>0, <1>15, <2>1 DEF DieHoldingMutex, SpuriousWakeup
<1>16. CASE UNCHANGED vars
  BY <1>16 DEF vars, Handed, Held
<1> QED
  BY <1>2, <1>3, <1>4, <1>5, <1>6, <1>7, <1>8, <1>9, <1>10, <1>11, <1>12, <1>13, <1>14, <1>15, <1>16
     DEF Next, MainStep, ClientStep, WorkerStep

\* Under every interleaving of clients, workers and destroy, with destroy
\* called at any moment and cancellation acted on wherever glibc acts on it.
THEOREM DestroyCorrect == Spec => []DestroyInv
<1>1. Init => DestroyInv
  BY EmptySet DEF Init, DestroyInv, Closed, Idle, Handed, Held, Living
<1>2. TypeOK /\ CountMatches /\ OneOwnerPerJob /\ DestroyInv /\ [Next]_vars => DestroyInv'
  BY DestroyStep
<1> QED
  BY <1>1, <1>2, TypeCorrect, CountCorrect, OneOwner, PTL DEF Spec

\* thread_pool_destroy(1) returns only when every accepted job that was linked
\* before it closed the queue is done (thread-pool.c 96-128, 437-461).
THEOREM DestroyWaits == Spec => []WaitCompletesJobs
<1>1. TypeOK /\ DestroyInv => WaitCompletesJobs
  BY DEF TypeOK, DestroyInv, WaitCompletesJobs, Closed, Handed
<1> QED
  BY <1>1, TypeCorrect, DestroyCorrect, PTL

\* No worker is cancelled asleep or about to sleep, unless an add slipped in
\* after the queue was closed (thread-pool.c 124-126 come before 293).
THEOREM NoneCancelledAsleep == Spec => []NoSleeperCancelled
<1>1. TypeOK /\ CountMatches /\ DestroyInv => NoSleeperCancelled
  <2> SUFFICES ASSUME TypeOK, CountMatches, DestroyInv, late = {}, NEW w \in Workers, cancel[w]
               PROVE  pc[w] # "wait" /\ jobNum # 0
    BY DEF NoSleeperCancelled
  <2>1. mpc \in {"cancel", "join", "down"}
    BY DEF DestroyInv
  <2>2. jobNum = -1
    BY <2>1, ClosedAndEmpty DEF Closed
  <2> QED
    BY <2>1, <2>2 DEF DestroyInv
<1> QED
  BY <1>1, TypeCorrect, CountCorrect, DestroyCorrect, PTL

\* When destroy has returned, a living worker is one linked since
\* (thread-pool.c 281-315 against 250-266).
THEOREM NoThreadLeft == Spec => []NoThreadOutlivesPool
<1>1. DestroyInv => NoThreadOutlivesPool
  BY DEF DestroyInv, NoThreadOutlivesPool, Living
<1> QED
  BY <1>1, DestroyCorrect, PTL
=============================================================================
