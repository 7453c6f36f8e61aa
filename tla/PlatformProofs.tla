--------------------------- MODULE PlatformProofs ---------------------------
(***************************************************************************)
(* What the default platform guarantees for any number of workers, tasks   *)
(* and isolates: the worker pool of TaskQueue on its own, the pool as the  *)
(* platform of DefaultPlatform uses it, up to its destruction, and the     *)
(* foreground queues of the isolates.                                      *)
(***************************************************************************)
EXTENDS DefaultPlatform, FiniteSetTheorems, SequenceTheorems, TLAPS

(* A worker in Run() has a task.                                           *)
RunningHasTask == \A w \in Workers : worker[w] = "run" => current[w] \in Tasks

(* The inductive invariant of the pool.                                    *)
IInv ==
  /\ TypeOK
  /\ RunningHasTask
  /\ WorkConserving
  /\ TerminationIsPassedOn
  /\ ExitedMeansDrained

(* The part of it that typing needs.                                       *)
Typing == TypeOK /\ RunningHasTask

(* The pool starts with an empty queue and no task in hand.                *)
LEMMA InitTyping == Init => Typing
<1> SUFFICES ASSUME Init PROVE Typing
  BY Zenon
<1>1. task_queue \in Seq(Tasks)
  BY DEF Init
<1>2. worker \in [Workers -> WorkerPc] /\ current \in [Workers -> Tasks \cup {NoTask}]
  BY Zenon DEF Init, WorkerPc
<1>3. RunningHasTask
  BY Zenon DEF Init, RunningHasTask
<1> QED
  BY Zenon, <1>1, <1>2, <1>3 DEF Init, TypeOK, Typing

(* Every step keeps the types, and a worker that runs has a task.          *)
LEMMA NextTyping == Typing /\ [Next]_vars => Typing'
<1> SUFFICES ASSUME Typing, [Next]_vars PROVE Typing'
  BY Zenon
<1> USE DEF Typing, TypeOK, RunningHasTask, WorkerPc
<1>1. CASE UNCHANGED vars
  BY Zenon, <1>1 DEF vars
<1>2. CASE StartWorkers
  BY Zenon, <1>2 DEF StartWorkers
<1>3. ASSUME NEW t \in Tasks, AppendTask(t) PROVE Typing'
  BY <1>3 DEF AppendTask
<1>4. ASSUME NEW w \in Workers, Step(w) PROVE Typing'
  <2>1. CASE GetTask(w)
    <3>1. Head(task_queue) \in Tasks /\ Tail(task_queue) \in Seq(Tasks)
      BY <2>1 DEF GetTask
    <3> QED
      BY Zenon, <2>1, <3>1 DEF GetTask
  <2>2. CASE GetNull(w)
    BY <2>2 DEF GetNull
  <2>3. CASE GetNothing(w)
    BY Zenon, <2>3 DEF GetNothing
  <2>4. CASE SemaphoreWait(w)
    BY <2>4 DEF SemaphoreWait
  <2>5. CASE TaskEnds(w)
    BY Zenon, <2>5 DEF TaskEnds
  <2> QED
    BY Zenon, <1>4, <2>1, <2>2, <2>3, <2>4, <2>5 DEF Step
<1>5. CASE Terminate
  BY <1>5 DEF Terminate
<1> QED
  BY Zenon, <1>1, <1>2, <1>3, <1>4, <1>5 DEF Next

(* The workers about to call GetNext can be counted.                       *)
LEMMA GetCount ==
  ASSUME Typing
  PROVE  /\ IsFiniteSet(At("get"))
         /\ Cardinality(At("get")) \in Nat
  BY Zenon, FS_Subset, FS_CardinalityType, TaskQueueAssumption DEF At

(* A worker that comes to "get", and one that leaves it.                   *)
LEMMA GetCountMoves ==
  ASSUME Typing, NEW w \in Workers, NEW at \in WorkerPc,
         worker' = [worker EXCEPT ![w] = at]
  PROVE  /\ worker[w] # "get" /\ at = "get" =>
              Cardinality(At("get")') = Cardinality(At("get")) + 1
         /\ worker[w] = "get" /\ at # "get" =>
              Cardinality(At("get")') = Cardinality(At("get")) - 1
<1>1. CASE worker[w] # "get" /\ at = "get"
  <2>1. At("get")' = At("get") \cup {w} /\ w \notin At("get")
    BY Zenon, <1>1 DEF At, Typing, TypeOK
  <2> QED
    BY Zenon, <1>1, <2>1, GetCount, FS_AddElement
<1>2. CASE worker[w] = "get" /\ at # "get"
  <2>1. At("get")' = At("get") \ {w} /\ w \in At("get")
    BY Zenon, <1>2 DEF At, Typing, TypeOK
  <2> QED
    BY <1>2, <2>1, GetCount, FS_RemoveElement
<1> QED
  BY Zenon, <1>1, <1>2

(* Append adds a signal for its task, and a worker that takes a signal is  *)
(* about to look at the queue again.                                       *)
LEMMA NextWorkConserving ==
  Typing /\ WorkConserving /\ [Next]_vars => WorkConserving'
<1> SUFFICES ASSUME Typing, WorkConserving, [Next]_vars PROVE WorkConserving'
  BY Zenon
<1> USE DEF WorkConserving
<1> DEFINE n == Cardinality(At("get"))
<1>0. n \in Nat /\ semaphore \in Nat /\ Len(task_queue) \in Nat
      /\ Len(task_queue) <= semaphore + n
  BY GetCount DEF Typing, TypeOK
<1>1. CASE UNCHANGED vars
  BY Zenon, <1>1 DEF vars, At
<1>2. CASE StartWorkers
  <2>1. n = 0
    <3>1. At("get") = {}
      BY Zenon, <1>2 DEF StartWorkers, At
    <3> QED
      BY Zenon, <3>1, FS_EmptySet
  <2>2. Typing'
    BY Zenon, <1>2, NextTyping DEF Next
  <2>3. n' \in Nat
    BY Zenon, <2>2, FS_Subset, FS_CardinalityType, TaskQueueAssumption DEF At
  <2> HIDE DEF n
  <2>4. Len(task_queue)' <= semaphore' + n'
    BY <1>0, <1>2, <2>1, <2>3 DEF StartWorkers
  <2> QED
    BY Zenon, <2>4 DEF n
<1>3. ASSUME NEW t \in Tasks, AppendTask(t) PROVE WorkConserving'
  <2>1. n' = n
    BY Zenon, <1>3 DEF AppendTask, At
  <2>2. Len(task_queue)' = Len(task_queue) + 1
    BY <1>3 DEF AppendTask, Typing, TypeOK
  <2> HIDE DEF n
  <2>3. Len(task_queue)' <= semaphore' + n'
    BY <1>0, <1>3, <2>1, <2>2 DEF AppendTask
  <2> QED
    BY Zenon, <2>3 DEF n
<1>4. ASSUME NEW w \in Workers, Step(w) PROVE WorkConserving'
  <2>1. CASE GetTask(w)
    <3>1. n' = n - 1
      BY Zenon, <2>1, GetCountMoves DEF GetTask, WorkerPc
    <3>2. Len(task_queue)' = Len(task_queue) - 1
      BY <2>1 DEF GetTask, Typing, TypeOK
    <3> HIDE DEF n
    <3>3. Len(task_queue)' <= semaphore' + n'
      BY <1>0, <2>1, <3>1, <3>2 DEF GetTask
    <3> QED
      BY Zenon, <3>3 DEF n
  <2>2. CASE GetNull(w)
    <3>1. n' = n - 1
      BY Zenon, <2>2, GetCountMoves DEF GetNull, WorkerPc
    <3> HIDE DEF n
    <3>2. Len(task_queue)' <= semaphore' + n'
      BY <1>0, <2>2, <3>1 DEF GetNull
    <3> QED
      BY Zenon, <3>2 DEF n
  <2>3. CASE GetNothing(w)
    <3>1. n' = n - 1 /\ n >= 1
      <4>1. n' = n - 1
        BY Zenon, <2>3, GetCountMoves DEF GetNothing, WorkerPc
      <4>2. At("get") # {}
        BY Zenon, <2>3 DEF GetNothing, At
      <4> QED
        BY <4>1, <4>2, GetCount, FS_EmptySet
    <3>2. Len(task_queue') = 0
      BY Zenon, <2>3 DEF GetNothing
    <3> HIDE DEF n
    <3>3. Len(task_queue)' <= semaphore' + n'
      BY <1>0, <2>3, <3>1, <3>2 DEF GetNothing
    <3> QED
      BY Zenon, <3>3 DEF n
  <2>4. CASE SemaphoreWait(w)
    <3>1. n' = n + 1
      BY Zenon, <2>4, GetCountMoves DEF SemaphoreWait, WorkerPc
    <3> HIDE DEF n
    <3>2. Len(task_queue)' <= semaphore' + n'
      BY <1>0, <2>4, <3>1 DEF SemaphoreWait
    <3> QED
      BY Zenon, <3>2 DEF n
  <2>5. CASE TaskEnds(w)
    <3>1. n' = n + 1
      BY Zenon, <2>5, GetCountMoves DEF TaskEnds, WorkerPc
    <3> HIDE DEF n
    <3>2. Len(task_queue)' <= semaphore' + n'
      BY <1>0, <2>5, <3>1 DEF TaskEnds
    <3> QED
      BY Zenon, <3>2 DEF n
  <2> QED
    BY Zenon, <1>4, <2>1, <2>2, <2>3, <2>4, <2>5 DEF Step
<1>5. CASE Terminate
  <2>1. n' = n
    BY Zenon, <1>5 DEF Terminate, At
  <2> HIDE DEF n
  <2>2. Len(task_queue)' <= semaphore' + n'
    BY <1>0, <1>5, <2>1 DEF Terminate
  <2> QED
    BY Zenon, <2>2 DEF n
<1> QED
  BY Zenon, <1>1, <1>2, <1>3, <1>4, <1>5 DEF Next

(* The signal of Terminate is passed on by each worker that ends.          *)
LEMMA NextTermination ==
  IInv /\ [Next]_vars => TerminationIsPassedOn' /\ ExitedMeansDrained'
<1> SUFFICES ASSUME IInv, [Next]_vars
             PROVE  TerminationIsPassedOn' /\ ExitedMeansDrained'
  BY Zenon
<1> USE DEF IInv, TypeOK, WorkerPc, TerminationIsPassedOn, ExitedMeansDrained, At
<1>1. CASE UNCHANGED vars
  BY Zenon, <1>1 DEF vars
<1>2. CASE StartWorkers
  BY Zenon, <1>2 DEF StartWorkers
<1>3. ASSUME NEW t \in Tasks, AppendTask(t)
      PROVE  TerminationIsPassedOn' /\ ExitedMeansDrained'
  BY Zenon, <1>3 DEF AppendTask
<1>4. ASSUME NEW w \in Workers, Step(w)
      PROVE  TerminationIsPassedOn' /\ ExitedMeansDrained'
  <2>1. CASE GetTask(w)
    BY Zenon, <2>1 DEF GetTask
  <2>2. CASE GetNull(w)
    BY <2>2 DEF GetNull
  <2>3. CASE GetNothing(w)
    BY Zenon, <2>3 DEF GetNothing
  <2>4. CASE SemaphoreWait(w)
    BY Zenon, <2>4 DEF SemaphoreWait
  <2>5. CASE TaskEnds(w)
    BY Zenon, <2>5 DEF TaskEnds
  <2> QED
    BY Zenon, <1>4, <2>1, <2>2, <2>3, <2>4, <2>5 DEF Step
<1>5. CASE Terminate
  BY <1>5 DEF Terminate
<1> QED
  BY Zenon, <1>1, <1>2, <1>3, <1>4, <1>5 DEF Next

(* The inductive invariant holds of the new pool.                          *)
LEMMA InitIInv == Init => IInv
<1> SUFFICES ASSUME Init PROVE IInv
  BY Zenon
<1>1. Typing
  BY Zenon, InitTyping
<1>2. WorkConserving
  <2>1. Len(task_queue) = 0 /\ semaphore = 0
    BY Zenon DEF Init
  <2> QED
    BY <1>1, <2>1, GetCount DEF WorkConserving
<1>3. TerminationIsPassedOn /\ ExitedMeansDrained
  BY Zenon DEF Init, TerminationIsPassedOn, ExitedMeansDrained, At
<1> QED
  BY Zenon, <1>1, <1>2, <1>3 DEF IInv, Typing

(* The inductive invariant holds throughout.                               *)
LEMMA Invariance == Spec => []IInv
<1>1. IInv /\ [Next]_vars => IInv'
  BY Zenon, NextTyping, NextWorkConserving, NextTermination DEF IInv, Typing
<1> QED
  BY <1>1, InitIInv, PTL DEF Spec

(* Type correctness of the queue and the pool.                             *)
THEOREM TypeCorrect == Spec => []TypeOK
<1>1. IInv => TypeOK
  BY Zenon DEF IInv
<1> QED
  BY <1>1, Invariance, PTL

(* In a pool of any size, no worker sleeps while there is more in the      *)
(* queue than awake workers are about to take and signals announce.        *)
THEOREM PoolIsWorkConserving == Spec => []WorkConserving
<1>1. IInv => WorkConserving
  BY Zenon DEF IInv
<1> QED
  BY <1>1, Invariance, PTL

(* In a pool of any size, Terminate reaches every sleeping worker, and no  *)
(* worker ends before the queue is empty.                                  *)
THEOREM PoolTerminates == Spec => []OrderlyTermination
<1>1. IInv => OrderlyTermination
  BY Zenon DEF IInv, OrderlyTermination
<1> QED
  BY <1>1, Invariance, PTL

-----------------------------------------------------------------------------
(* What has been posted is done, being run or in the queue.                *)
TasksAreAccountedFor ==
  posted = finished \cup Range(task_queue) \cup {current[w] : w \in At("run")}

(* The pool is started as a whole, before the first task is posted.        *)
PoolIsStarted == (At("none") = Workers /\ posted = {}) \/ At("none") = {}

(* The queue is terminated by the destructor, which is past the joins only *)
(* when the threads have ended.                                            *)
PoolIsJoined ==
  /\ platform \in {"alive", "joining", "gone"}
  /\ platform = "alive" <=> ~terminated
  /\ platform = "gone" => \A w \in Workers : worker[w] \in {"none", "exited"}

(* What the platform adds to the inductive invariant of the pool.          *)
PoolIsAccounted == TasksAreAccountedFor /\ PoolIsStarted /\ PoolIsJoined

(* Every step of the platform is a step of its pool or leaves it alone.    *)
LEMMA PoolStep == [PlatformNext]_platformVars => [Next]_vars
BY Zenon DEF PlatformNext, platformVars, Next, EnsureInitialized, CallOnBackgroundThread,
       CallOnForegroundThread, PosterCalls, PosterPushes,
       CallDelayedOnForegroundThread, PumpMessageLoop, ForegroundTaskEnds,
       WorkerStep, SetTracingController, DestructorStarts, DestructorEnds, Tick

(* The platform uses its pool only as TaskQueue says: what is proved of    *)
(* the pool holds in every behaviour of the platform.                      *)
THEOREM PlatformRunsPool == PlatformSpec => Spec
<1>1. PlatformInit => Init
  BY Zenon DEF PlatformInit
<1> QED
  BY <1>1, PoolStep, PTL DEF PlatformSpec, Spec

(* How Append and GetNext change the set of tasks in the queue.            *)
LEMMA QueueRange ==
  ASSUME NEW S, NEW q \in Seq(S)
  PROVE  /\ \A t \in S : Range(Append(q, t)) = Range(q) \cup {t}
         /\ q # <<>> => Range(q) = {Head(q)} \cup Range(Tail(q))
<1>1. ASSUME NEW t \in S PROVE Range(Append(q, t)) = Range(q) \cup {t}
  <2>1. /\ Append(q, t) \in Seq(S) /\ Len(Append(q, t)) = Len(q) + 1
        /\ \A k \in 1 .. Len(q) : Append(q, t)[k] = q[k]
        /\ Append(q, t)[Len(q) + 1] = t
    BY <1>1, AppendProperties
  <2>2. /\ DOMAIN Append(q, t) = (1 .. Len(q)) \cup {Len(q) + 1}
        /\ DOMAIN q = 1 .. Len(q)
    BY <2>1
  <2> HIDE DEF Append
  <2> QED
    BY <2>1, <2>2 DEF Range
<1>2. ASSUME q # <<>> PROVE Range(q) = {Head(q)} \cup Range(Tail(q))
  <2>1. /\ Tail(q) \in Seq(S) /\ Len(Tail(q)) = Len(q) - 1 /\ Head(q) = q[1]
        /\ \A k \in 1 .. Len(Tail(q)) : Tail(q)[k] = q[k + 1]
    BY <1>2, HeadTailProperties
  <2>2. Len(q) \in Nat /\ Len(q) # 0 /\ DOMAIN q = 1 .. Len(q)
        /\ DOMAIN Tail(q) = 1 .. Len(q) - 1
    BY <1>2, <2>1
  <2>3. ASSUME NEW k \in 1 .. Len(q) PROVE q[k] \in {Head(q)} \cup Range(Tail(q))
    <3>1. CASE k = 1
      BY Zenon, <2>1, <3>1
    <3>2. CASE k # 1
      <4>1. k - 1 \in 1 .. Len(q) - 1 /\ (k - 1) + 1 = k
        BY <2>2, <3>2
      <4> QED
        BY Zenon, <2>1, <2>2, <4>1 DEF Range
    <3> QED
      BY Zenon, <3>1, <3>2
  <2>4. ASSUME NEW k \in 1 .. Len(q) - 1 PROVE Tail(q)[k] \in Range(q)
    <3>1. k + 1 \in 1 .. Len(q)
      BY <2>2
    <3> QED
      BY Zenon, <2>1, <2>2, <3>1 DEF Range
  <2>5. Head(q) \in Range(q)
    BY <2>1, <2>2 DEF Range
  <2> QED
    BY Zenon, <2>2, <2>3, <2>4, <2>5 DEF Range
<1> QED
  BY Zenon, <1>1, <1>2

(* The pool starts empty.                                                  *)
LEMMA InitAccounted == PlatformInit => PoolIsAccounted
<1> SUFFICES ASSUME PlatformInit PROVE PoolIsAccounted
  BY Zenon
<1>1. At("none") = Workers /\ At("run") = {} /\ Range(task_queue) = {}
  BY DEF PlatformInit, Init, At, Range
<1> QED
  BY Zenon, <1>1 DEF PlatformInit, Init, PoolIsAccounted, TasksAreAccountedFor, PoolIsStarted,
    PoolIsJoined

(* A step of a worker passes a task on and loses none.                     *)
LEMMA WorkerAccounts ==
  ASSUME IInv, PoolIsAccounted, NEW w \in Workers, WorkerStep(w)
  PROVE  PoolIsAccounted'
<1>1. /\ TypeOK /\ RunningHasTask /\ TasksAreAccountedFor /\ PoolIsStarted /\ PoolIsJoined
      /\ Step(w) /\ UNCHANGED platform
  BY Zenon DEF IInv, PoolIsAccounted, WorkerStep
<1>2. /\ UNCHANGED <<posted, terminated>>
      /\ worker[w] \in {"get", "wait", "run"}
      /\ worker' = [worker EXCEPT ![w] = worker'[w]] /\ worker'[w] # "none"
  BY Zenon, <1>1 DEF Step, GetTask, GetNull, GetNothing, SemaphoreWait, TaskEnds, TypeOK
<1>3. PoolIsStarted'
  <2>1. At("none") # Workers
    BY Zenon, <1>2 DEF At
  <2>2. At("none") = {}
    BY Zenon, <1>1, <2>1 DEF PoolIsStarted
  <2> QED
    BY Zenon, <1>1, <1>2, <2>2 DEF PoolIsStarted, At, TypeOK
<1>4. PoolIsJoined'
  BY Zenon, <1>1, <1>2 DEF PoolIsJoined
<1>5. TasksAreAccountedFor'
  <2>1. CASE GetTask(w)
    <3>1. /\ task_queue # <<>> /\ task_queue' = Tail(task_queue) /\ finished' = finished
          /\ current' = [current EXCEPT ![w] = Head(task_queue)]
          /\ worker' = [worker EXCEPT ![w] = "run"] /\ worker[w] = "get"
      BY Zenon, <2>1 DEF GetTask
    <3>2. Range(task_queue) = {Head(task_queue)} \cup Range(task_queue')
      BY Zenon, <1>1, <3>1, QueueRange DEF TypeOK
    <3>3. {current[v] : v \in At("run")}' = {current[v] : v \in At("run")} \cup {Head(task_queue)}
      BY Zenon, <1>1, <3>1 DEF TypeOK, At
    <3> QED
      BY Zenon, <1>1, <1>2, <3>1, <3>2, <3>3 DEF TasksAreAccountedFor
  <2>2. CASE TaskEnds(w)
    <3>1. /\ task_queue' = task_queue /\ finished' = finished \cup {current[w]}
          /\ current' = [current EXCEPT ![w] = NoTask]
          /\ worker' = [worker EXCEPT ![w] = "get"] /\ worker[w] = "run"
      BY Zenon, <2>2 DEF TaskEnds
    <3>2. /\ {current[v] : v \in At("run")} = {current[v] : v \in At("run")}' \cup {current[w]}
      BY Zenon, <1>1, <3>1 DEF TypeOK, At
    <3> QED
      BY Zenon, <1>1, <1>2, <3>1, <3>2 DEF TasksAreAccountedFor
  <2>3. CASE GetNull(w) \/ GetNothing(w) \/ SemaphoreWait(w)
    <3>1. /\ UNCHANGED <<task_queue, finished, current, posted>>
          /\ worker' = [worker EXCEPT ![w] = worker'[w]] /\ worker'[w] # "run" /\ worker[w] # "run"
      BY Zenon, <1>1, <2>3 DEF GetNull, GetNothing, SemaphoreWait, TypeOK
    <3>2. At("run")' = At("run")
      BY Zenon, <1>1, <3>1 DEF At, TypeOK
    <3> QED
      BY Zenon, <1>1, <3>1, <3>2 DEF TasksAreAccountedFor
  <2> QED
    BY Zenon, <1>1, <2>1, <2>2, <2>3 DEF Step
<1> QED
  BY Zenon, <1>3, <1>4, <1>5 DEF PoolIsAccounted

(* So do the calls from outside, and the destructor.                       *)
LEMMA StepAccounts ==
  ASSUME IInv, PoolIsAccounted, [PlatformNext]_platformVars
  PROVE  PoolIsAccounted'
<1> USE DEF PoolIsAccounted
<1>1. TypeOK
  BY Zenon DEF IInv
<1>2. CASE EnsureInitialized
  <2>1. /\ worker' = [w \in Workers |-> "get"] /\ \A w \in Workers : worker[w] = "none"
        /\ UNCHANGED <<task_queue, terminated, posted, finished, current, platform>>
        /\ platform = "alive"
    BY Zenon, <1>2 DEF EnsureInitialized, StartWorkers, LockFree
  <2>2. At("none")' = {} /\ At("run") = {} /\ At("run")' = {}
    BY Zenon, <2>1 DEF At
  <2> QED
    BY Zenon, <2>1, <2>2 DEF TasksAreAccountedFor, PoolIsStarted, PoolIsJoined
<1>3. ASSUME NEW t \in Tasks, CallOnBackgroundThread(t) PROVE PoolIsAccounted'
  <2>1. /\ task_queue' = Append(task_queue, t) /\ posted' = posted \cup {t}
        /\ UNCHANGED <<terminated, worker, current, finished, platform>>
        /\ platform = "alive" /\ \A w \in Workers : worker[w] # "none"
    BY Zenon, <1>3 DEF CallOnBackgroundThread, AppendTask, LockFree
  <2>2. Range(task_queue') = Range(task_queue) \cup {t}
    BY <1>1, <2>1, QueueRange DEF TypeOK
  <2>3. At("none")' = {} /\ At("run")' = At("run")
    BY Zenon, <2>1 DEF At
  <2> QED
    BY <2>1, <2>2, <2>3 DEF TasksAreAccountedFor, PoolIsStarted, PoolIsJoined
<1>4. ASSUME NEW w \in Workers, WorkerStep(w) PROVE PoolIsAccounted'
  BY Zenon, <1>4, WorkerAccounts
<1>5. CASE DestructorStarts
  <2>1. /\ UNCHANGED <<task_queue, worker, current, posted, finished>>
        /\ terminated' = TRUE /\ platform' = "joining"
    BY Zenon, <1>5 DEF DestructorStarts, Terminate
  <2>2. At("none")' = At("none") /\ At("run")' = At("run")
    BY Zenon, <2>1 DEF At
  <2> QED
    BY Zenon, <2>1, <2>2 DEF TasksAreAccountedFor, PoolIsStarted, PoolIsJoined
<1>6. CASE DestructorEnds
  <2>1. /\ UNCHANGED <<task_queue, worker, current, posted, finished, terminated>>
        /\ platform = "joining" /\ platform' = "gone"
        /\ \A w \in Workers : worker[w] \in {"none", "exited"}
    BY Zenon, <1>6 DEF DestructorEnds, vars
  <2>2. At("none")' = At("none") /\ At("run")' = At("run")
    BY Zenon, <2>1 DEF At
  <2> QED
    BY Zenon, <2>1, <2>2 DEF TasksAreAccountedFor, PoolIsStarted, PoolIsJoined
<1>7. ASSUME UNCHANGED <<vars, platform>> PROVE PoolIsAccounted'
  <2>1. UNCHANGED <<task_queue, worker, current, posted, finished, terminated, platform>>
    BY Zenon, <1>7 DEF vars
  <2>2. At("none")' = At("none") /\ At("run")' = At("run")
    BY Zenon, <2>1 DEF At
  <2> QED
    BY Zenon, <2>1, <2>2 DEF TasksAreAccountedFor, PoolIsStarted, PoolIsJoined
<1> QED
  BY Zenon, <1>2, <1>3, <1>4, <1>5, <1>6, <1>7
  DEF PlatformNext, platformVars, CallOnForegroundThread, PosterCalls, PosterPushes,
      CallDelayedOnForegroundThread, PumpMessageLoop, ForegroundTaskEnds,
      SetTracingController, Tick

(* For any pool: when the destructor has deleted the tracing controller,   *)
(* no worker runs, and every background task that was posted has been run. *)
THEOREM ControllerOutlives == PlatformSpec => []ControllerOutlivesTasks
<1>1. PlatformInit => PoolIsAccounted
  BY Zenon, InitAccounted
<1>2. IInv /\ PoolIsAccounted /\ [PlatformNext]_platformVars => PoolIsAccounted'
  BY Zenon, StepAccounts
<1>3. IInv /\ PoolIsAccounted => ControllerOutlivesTasks
  <2> SUFFICES ASSUME IInv, PoolIsAccounted, platform = "gone"
               PROVE  /\ \A w \in Workers : worker[w] \in {"none", "exited"}
                      /\ posted = finished
    BY Zenon DEF ControllerOutlivesTasks
  <2>1. /\ At("run") = {} /\ \A w \in Workers : worker[w] \in {"none", "exited"}
        /\ TasksAreAccountedFor /\ PoolIsStarted /\ ExitedMeansDrained
    BY Zenon DEF IInv, PoolIsAccounted, PoolIsJoined, At
  <2>2. CASE At("none") = {}
    <3>1. At("exited") # {}
      BY Zenon, <2>1, <2>2, PlatformAssumption DEF At
    <3>2. Range(task_queue) = {}
      BY <2>1, <3>1 DEF ExitedMeansDrained, Range
    <3> QED
      BY Zenon, <2>1, <3>2 DEF TasksAreAccountedFor
  <2>3. CASE posted = {}
    BY Zenon, <2>1, <2>3 DEF TasksAreAccountedFor
  <2> QED
    BY Zenon, <2>1, <2>2, <2>3 DEF PoolIsStarted
<1> QED
  BY <1>1, <1>2, <1>3, PlatformRunsPool, Invariance, PTL DEF PlatformSpec

-----------------------------------------------------------------------------
(* The calls that schedule foreground tasks.                               *)
Calls == [delayed : BOOLEAN, due : Nat, task : Tasks]

(* In a sequence of tasks, b comes only after a.                           *)
Precedes(line, a, b) ==
  \A p \in DOMAIN line : line[p] = b => \E q \in 1 .. p - 1 : line[q] = a

(* The two orders of ForegroundOrder, for the calls of one isolate.        *)
CallsInOrder(calls, line) ==
  \A j, k \in DOMAIN calls :
    \/ ~calls[j].delayed /\ ~calls[k].delayed /\ j < k
    \/ calls[j].delayed /\ calls[k].delayed /\ calls[j].due < calls[k].due
    => Precedes(line, calls[j].task, calls[k].task)

(* How the calls of an isolate, its line (see Line), its delayed queue and *)
(* the time are related: every call has a task of its own; what is in line *)
(* or delayed was scheduled; an undelayed task is in line, and a delayed   *)
(* one is delayed until it is in line, which it is not before it is due.   *)
Lined(calls, line, delayed, time) ==
  /\ \A j, k \in DOMAIN calls : calls[j].task = calls[k].task => j = k
  /\ \A p \in DOMAIN line : \E j \in DOMAIN calls : calls[j].task = line[p]
  /\ \A e \in delayed : \E j \in DOMAIN calls : calls[j] = Call(TRUE, e[1], e[2])
  /\ \A j \in DOMAIN calls :
       IF ~calls[j].delayed THEN calls[j].task \in Range(line)
       ELSE \/ calls[j].task \in Range(line) /\ calls[j].due <= time
            \/ calls[j].task \notin Range(line) /\ <<calls[j].due, calls[j].task>> \in delayed
  /\ CallsInOrder(calls, line)

(* The line of an isolate is what it has started and then what is in its   *)
(* main queue: a step only ever adds to its end.                           *)
Line(i) == executed[i] \o main_thread_queue[i]

(* The inductive invariant.  The destructor empties the queues, and then   *)
(* only the order of what was started is left.                             *)
ForegroundIsLined ==
  /\ platform # "gone" =>
       \A i \in Isolates : Lined(scheduled[i], Line(i), main_thread_delayed_queue[i], now)
  /\ \A i \in Isolates : CallsInOrder(scheduled[i], executed[i])

(* The types of the foreground queues; a delayed queue is finite.          *)
ForegroundTyping ==
  /\ main_thread_queue \in [Isolates -> Seq(Tasks)]
  /\ main_thread_delayed_queue = [i \in Isolates |-> main_thread_delayed_queue[i]]
  /\ \A i \in Isolates : /\ main_thread_delayed_queue[i] \subseteq Nat \X Tasks
                         /\ IsFiniteSet(main_thread_delayed_queue[i])
  /\ now \in Nat
  /\ scheduled \in [Isolates -> Seq(Calls)]
  /\ executed \in [Isolates -> Seq(Tasks)]

(* ForegroundOrder is the order of the calls of every isolate, in what its *)
(* thread has started.                                                     *)
LEMMA OrderOfCalls ==
  (\A i \in Isolates : CallsInOrder(scheduled[i], executed[i])) => ForegroundOrder
BY DEF CallsInOrder, Precedes, ForegroundOrder, InOrder, StartsBefore

(* Appending to a sequence changes nothing before its end.                 *)
LEMMA Appended ==
  ASSUME NEW S, NEW q \in Seq(S), NEW c
  PROVE  /\ DOMAIN Append(q, c) = 1 .. Len(q) + 1
         /\ \A j \in 1 .. Len(q) : Append(q, c)[j] = q[j]
         /\ Append(q, c)[Len(q) + 1] = c
OBVIOUS

(* What has been executed is the front of the line.                        *)
LEMMA FrontOfLine ==
  ASSUME NEW a \in Seq(Tasks), NEW b \in Seq(Tasks), NEW calls, CallsInOrder(calls, a \o b)
  PROVE  CallsInOrder(calls, a)
<1>1. ASSUME NEW x, NEW y, Precedes(a \o b, x, y) PROVE Precedes(a, x, y)
  <2> SUFFICES ASSUME NEW p \in DOMAIN a, a[p] = y PROVE \E q \in 1 .. p - 1 : a[q] = x
    BY Zenon DEF Precedes
  <2>1. /\ DOMAIN a = 1 .. Len(a) /\ Len(a) \in Nat /\ Len(b) \in Nat
        /\ DOMAIN (a \o b) = 1 .. Len(a) + Len(b)
        /\ \A q \in 1 .. Len(a) : (a \o b)[q] = a[q]
    BY ConcatProperties
  <2>2. PICK q \in 1 .. p - 1 : (a \o b)[q] = x
    BY <1>1, <2>1 DEF Precedes
  <2> QED
    BY <2>1, <2>2
<1> QED
  BY Zenon, <1>1 DEF CallsInOrder

(* CallOnForegroundThread puts its task at the end of the line.            *)
LEMMA LineGrows ==
  ASSUME NEW calls \in Seq(Calls), NEW line \in Seq(Tasks), NEW delayed, NEW time \in Nat,
         Lined(calls, line, delayed, time),
         NEW t \in Tasks, \A j \in DOMAIN calls : calls[j].task # t
  PROVE  Lined(Append(calls, Call(FALSE, time, t)), Append(line, t), delayed, time)
<1> DEFINE n == Len(calls) + 1
           m == Len(line) + 1
           calls2 == Append(calls, Call(FALSE, time, t))
           line2 == Append(line, t)
<1>0. /\ \A j, k \in DOMAIN calls : calls[j].task = calls[k].task => j = k
      /\ \A p \in DOMAIN line : \E j \in DOMAIN calls : calls[j].task = line[p]
      /\ \A e \in delayed : \E j \in DOMAIN calls : calls[j] = Call(TRUE, e[1], e[2])
  BY Zenon DEF Lined
<1>1. /\ n \in Nat \ {0} /\ DOMAIN calls = 1 .. n - 1 /\ DOMAIN calls2 = 1 .. n
      /\ calls2[n].task = t /\ calls2[n].delayed = FALSE
      /\ \A j \in 1 .. n - 1 : calls2[j] = calls[j]
  BY DEF Call, Calls
<1>2. /\ m \in Nat \ {0} /\ DOMAIN line = 1 .. m - 1 /\ DOMAIN line2 = 1 .. m
      /\ line2[m] = t /\ \A p \in 1 .. m - 1 : line2[p] = line[p]
  OBVIOUS
<1>3. Range(line2) = Range(line) \cup {t}
  BY QueueRange
<1> HIDE DEF n, m, calls2, line2
<1>4. \A j, k \in DOMAIN calls2 : calls2[j].task = calls2[k].task => j = k
  BY <1>1 DEF Lined
<1>5. ASSUME NEW p \in DOMAIN line2 PROVE \E j \in DOMAIN calls2 : calls2[j].task = line2[p]
  <2>1. CASE p = m
    BY <1>1, <1>2, <2>1
  <2>2. CASE p # m
    <3>1. p \in DOMAIN line /\ line2[p] = line[p]
      BY <1>2, <2>2
    <3>2. PICK j \in DOMAIN calls : calls[j].task = line[p]
      BY Zenon, <1>0, <3>1
    <3> QED
      BY <1>1, <3>1, <3>2
  <2> QED
    BY Zenon, <2>1, <2>2
<1>6. ASSUME NEW e \in delayed PROVE \E j \in DOMAIN calls2 : calls2[j] = Call(TRUE, e[1], e[2])
  <2>1. PICK j \in DOMAIN calls : calls[j] = Call(TRUE, e[1], e[2])
    BY Zenon, <1>0
  <2>2. j \in DOMAIN calls2 /\ calls2[j] = calls[j]
    BY <1>1
  <2> QED
    BY Zenon, <2>1, <2>2
<1>7. ASSUME NEW j \in DOMAIN calls2
      PROVE  IF ~calls2[j].delayed THEN calls2[j].task \in Range(line2)
             ELSE \/ calls2[j].task \in Range(line2) /\ calls2[j].due <= time
                  \/ /\ calls2[j].task \notin Range(line2)
                     /\ <<calls2[j].due, calls2[j].task>> \in delayed
  <2>1. CASE j = n
    BY Zenon, <1>1, <1>3, <2>1
  <2>2. CASE j # n
    <3>1. j \in DOMAIN calls /\ calls2[j] = calls[j] /\ calls[j].task # t
      BY <1>1, <2>2
    <3> QED
      BY Zenon, <1>3, <3>1 DEF Lined
  <2> QED
    BY Zenon, <2>1, <2>2
<1>8. CallsInOrder(calls2, line2)
  <2>1. ASSUME NEW x, NEW y, y # t, Precedes(line, x, y) PROVE Precedes(line2, x, y)
    BY <1>2, <2>1 DEF Precedes
  <2>2. ASSUME NEW x \in Range(line) PROVE Precedes(line2, x, t)
    <3>1. \A p \in DOMAIN line : line[p] # t
      BY Zenon DEF Lined
    <3>2. PICK q \in 1 .. m - 1 : line[q] = x
      BY Zenon, <1>2, <2>2 DEF Range
    <3> QED
      BY <1>2, <3>1, <3>2 DEF Precedes
  <2> SUFFICES ASSUME NEW j \in DOMAIN calls2, NEW k \in DOMAIN calls2,
                      \/ ~calls2[j].delayed /\ ~calls2[k].delayed /\ j < k
                      \/ /\ calls2[j].delayed /\ calls2[k].delayed
                         /\ calls2[j].due < calls2[k].due
               PROVE  Precedes(line2, calls2[j].task, calls2[k].task)
    BY Zenon DEF CallsInOrder
  <2>3. CASE k = n
    <3>1. j \in DOMAIN calls /\ calls2[j] = calls[j] /\ ~calls[j].delayed
      BY <1>1, <2>3
    <3>2. calls[j].task \in Range(line)
      BY Zenon, <3>1 DEF Lined
    <3> QED
      BY Zenon, <1>1, <2>2, <2>3, <3>1, <3>2
  <2>4. CASE k # n
    <3>1. k \in DOMAIN calls /\ calls2[k] = calls[k] /\ calls[k].task # t
      BY <1>1, <2>4
    <3>2. j \in DOMAIN calls /\ calls2[j] = calls[j]
      BY <1>1, <2>4
    <3>3. Precedes(line, calls[j].task, calls[k].task)
      BY Zenon, <3>1, <3>2 DEF Lined, CallsInOrder
    <3> QED
      BY Zenon, <2>1, <3>1, <3>2, <3>3
  <2> QED
    BY Zenon, <2>3, <2>4
<1> QED
  BY Zenon, <1>4, <1>5, <1>6, <1>7, <1>8 DEF Lined, calls2, line2

(* A delayed call is due no earlier than what has been moved to the line.  *)
LEMMA LineWaits ==
  ASSUME NEW calls \in Seq(Calls), NEW line \in Seq(Tasks), NEW delayed, NEW time \in Nat,
         Lined(calls, line, delayed, time), NEW due \in Nat, due >= time,
         NEW t \in Tasks, \A j \in DOMAIN calls : calls[j].task # t
  PROVE  Lined(Append(calls, Call(TRUE, due, t)), line, delayed \cup {<<due, t>>}, time)
<1> DEFINE n == Len(calls) + 1
           calls2 == Append(calls, Call(TRUE, due, t))
           delayed2 == delayed \cup {<<due, t>>}
<1>0. /\ \A j, k \in DOMAIN calls : calls[j].task = calls[k].task => j = k
      /\ \A p \in DOMAIN line : \E j \in DOMAIN calls : calls[j].task = line[p]
      /\ \A e \in delayed : \E j \in DOMAIN calls : calls[j] = Call(TRUE, e[1], e[2])
  BY Zenon DEF Lined
<1>1. /\ n \in Nat \ {0} /\ DOMAIN calls = 1 .. n - 1 /\ DOMAIN calls2 = 1 .. n
      /\ calls2[n] = Call(TRUE, due, t)
      /\ \A j \in 1 .. n - 1 : calls2[j] = calls[j] /\ calls[j] \in Calls
  <2>1. Len(calls) \in Nat /\ DOMAIN calls = 1 .. Len(calls)
        /\ \A j \in 1 .. Len(calls) : calls[j] \in Calls
    BY Zenon, LenProperties, ElementOfSeq
  <2>2. /\ DOMAIN calls2 = 1 .. Len(calls) + 1
        /\ \A j \in 1 .. Len(calls) : calls2[j] = calls[j]
        /\ calls2[Len(calls) + 1] = Call(TRUE, due, t)
    BY Zenon, Appended
  <2> HIDE DEF calls2
  <2> QED
    BY <2>1, <2>2
<1>2. calls2[n].task = t /\ calls2[n].delayed /\ calls2[n].due = due
  BY <1>1 DEF Call
<1>3. t \notin Range(line)
  BY <1>0 DEF Range
<1> HIDE DEF n, calls2
<1>4. \A j, k \in DOMAIN calls2 : calls2[j].task = calls2[k].task => j = k
  <2> SUFFICES ASSUME NEW j \in DOMAIN calls2, NEW k \in DOMAIN calls2,
                      calls2[j].task = calls2[k].task
               PROVE  j = k
    BY Zenon
  <2>1. ASSUME NEW i \in DOMAIN calls2, i # n
        PROVE  i \in DOMAIN calls /\ calls2[i] = calls[i] /\ calls[i].task # t
    BY <1>1, <2>1
  <2> QED
    BY <1>0, <1>2, <2>1
<1>5. ASSUME NEW p \in DOMAIN line PROVE \E j \in DOMAIN calls2 : calls2[j].task = line[p]
  <2>1. PICK j \in DOMAIN calls : calls[j].task = line[p]
    BY Zenon, <1>0
  <2> QED
    BY <1>1, <2>1
<1>6. \A e \in delayed2 : \E j \in DOMAIN calls2 : calls2[j] = Call(TRUE, e[1], e[2])
  <2>1. ASSUME NEW e \in delayed PROVE \E j \in DOMAIN calls2 : calls2[j] = Call(TRUE, e[1], e[2])
    <3>1. PICK j \in DOMAIN calls : calls[j] = Call(TRUE, e[1], e[2])
      BY Zenon, <1>0
    <3>2. j \in DOMAIN calls2 /\ calls2[j] = calls[j]
      BY <1>1
    <3> QED
      BY Zenon, <3>1, <3>2
  <2>2. n \in DOMAIN calls2 /\ calls2[n] = Call(TRUE, <<due, t>>[1], <<due, t>>[2])
    BY <1>1
  <2> QED
    BY Zenon, <2>1, <2>2
<1>7. ASSUME NEW j \in DOMAIN calls2
      PROVE  IF ~calls2[j].delayed THEN calls2[j].task \in Range(line)
             ELSE \/ calls2[j].task \in Range(line) /\ calls2[j].due <= time
                  \/ /\ calls2[j].task \notin Range(line)
                     /\ <<calls2[j].due, calls2[j].task>> \in delayed2
  <2>1. CASE j = n
    BY Zenon, <1>2, <1>3, <2>1
  <2>2. CASE j # n
    <3>1. j \in DOMAIN calls /\ calls2[j] = calls[j]
      BY <1>1, <2>2
    <3> QED
      BY Zenon, <3>1 DEF Lined
  <2> QED
    BY Zenon, <2>1, <2>2
<1>8. CallsInOrder(calls2, line)
  <2>1. ASSUME NEW x, NEW y, y \notin Range(line) PROVE Precedes(line, x, y)
    BY Zenon, <2>1 DEF Precedes, Range
  <2> SUFFICES ASSUME NEW j \in DOMAIN calls2, NEW k \in DOMAIN calls2,
                      \/ ~calls2[j].delayed /\ ~calls2[k].delayed /\ j < k
                      \/ /\ calls2[j].delayed /\ calls2[k].delayed
                         /\ calls2[j].due < calls2[k].due,
                      calls2[k].task \in Range(line)
               PROVE  Precedes(line, calls2[j].task, calls2[k].task)
    BY Zenon, <2>1 DEF CallsInOrder
  <2>2. k # n
    BY Zenon, <1>2, <1>3
  <2>3. k \in DOMAIN calls /\ calls2[k] = calls[k] /\ calls[k].due \in Nat
    BY <1>1, <2>2 DEF Calls
  <2>4. j # n
    <3> SUFFICES ASSUME j = n PROVE FALSE
      BY Zenon
    <3>1. calls[k].delayed /\ due < calls[k].due
      BY Zenon, <1>2, <2>3
    <3>2. calls[k].due <= time
      BY Zenon, <2>3, <3>1 DEF Lined
    <3> QED
      BY <2>3, <3>1, <3>2
  <2>5. j \in DOMAIN calls /\ calls2[j] = calls[j]
    BY <1>1, <2>4
  <2> QED
    BY Zenon, <2>3, <2>5 DEF Lined, CallsInOrder
<1> QED
  BY Zenon, <1>4, <1>5, <1>6, <1>7, <1>8 DEF Lined, calls2

(* PumpMessageLoop moves what has expired to the line in the order of the  *)
(* deadlines, after everything that was due before.                        *)
LEMMA LineMoves ==
  ASSUME NEW calls \in Seq(Calls), NEW line \in Seq(Tasks), NEW time \in Nat,
         NEW delayed \in SUBSET (Nat \X Tasks), Lined(calls, line, delayed, time),
         NEW n \in Nat, NEW expired \in SUBSET delayed,
         \A e \in delayed : e \in expired <=> e[1] <= time,
         NEW moved \in [1 .. n -> expired], expired \subseteq Range(moved),
         \A j, k \in 1 .. n : j < k => Before(moved[j], moved[k]),
         NEW tasks \in Seq(Tasks), Len(tasks) = n, \A k \in 1 .. n : tasks[k] = moved[k][2]
  PROVE  Lined(calls, line \o tasks, delayed \ expired, time)
<1> DEFINE line2 == line \o tasks
           m == Len(line)
<1>0. /\ \A j, k \in DOMAIN calls : calls[j].task = calls[k].task => j = k
      /\ \A p \in DOMAIN line : \E j \in DOMAIN calls : calls[j].task = line[p]
      /\ \A e \in delayed : \E j \in DOMAIN calls : calls[j] = Call(TRUE, e[1], e[2])
  BY Zenon DEF Lined
<1>1. \A k \in 1 .. n :
        /\ moved[k] \in expired /\ moved[k] \in delayed /\ moved[k] \in Nat \X Tasks
        /\ moved[k][1] \in Nat /\ moved[k][1] <= time /\ moved[k][2] \in Tasks
        /\ moved[k] = <<moved[k][1], moved[k][2]>>
  OBVIOUS
<1>2. tasks \in Seq(Tasks) /\ Len(tasks) = n /\ \A k \in 1 .. n : tasks[k] = moved[k][2]
  BY Zenon
<1>3. /\ m \in Nat /\ DOMAIN line = 1 .. m /\ line2 \in Seq(Tasks) /\ DOMAIN line2 = 1 .. m + n
      /\ \A p \in 1 .. m : line2[p] = line[p]
      /\ \A k \in 1 .. n : line2[m + k] = moved[k][2]
  <2>1. /\ line2 \in Seq(Tasks) /\ Len(line2) = Len(line) + Len(tasks)
        /\ \A i \in 1 .. Len(line) + Len(tasks) :
             line2[i] = IF i <= Len(line) THEN line[i] ELSE tasks[i - Len(line)]
    BY Zenon, <1>2, ConcatProperties
  <2>2. m \in Nat /\ DOMAIN line = 1 .. m
    BY Zenon, LenProperties
  <2> HIDE DEF line2
  <2>3. DOMAIN line2 = 1 .. m + n /\ \A p \in 1 .. m : line2[p] = line[p]
    BY <1>2, <2>1, <2>2
  <2>4. ASSUME NEW k \in 1 .. n PROVE line2[m + k] = moved[k][2]
    <3>1. m + k \in 1 .. m + n /\ ~(m + k <= m) /\ (m + k) - m = k
      BY <2>2
    <3> QED
      BY Zenon, <1>2, <2>1, <3>1
  <2> QED
    BY Zenon, <2>1, <2>2, <2>3, <2>4
<1> HIDE DEF line2, m
<1>4. ASSUME NEW k \in 1 .. n, NEW j \in DOMAIN calls, calls[j].task = moved[k][2]
      PROVE  calls[j].delayed /\ calls[j].due = moved[k][1]
  <2>1. PICK i \in DOMAIN calls : calls[i] = Call(TRUE, moved[k][1], moved[k][2])
    BY Zenon, <1>0, <1>1
  <2>2. calls[i].task = moved[k][2] /\ calls[i].delayed /\ calls[i].due = moved[k][1]
    BY <2>1 DEF Call
  <2> QED
    BY <1>0, <1>4, <2>2
<1>5. ASSUME NEW x
      PROVE  x \in Range(line2) <=> x \in Range(line) \/ \E k \in 1 .. n : x = moved[k][2]
  <2>1. ASSUME x \in Range(line2), x \notin Range(line) PROVE \E k \in 1 .. n : x = moved[k][2]
    <3>1. PICK p \in 1 .. m + n : line2[p] = x
      BY <1>3, <2>1 DEF Range
    <3>2. p > m
      <4>1. ASSUME p \in 1 .. m PROVE FALSE
        <5>1. line[p] = x /\ p \in DOMAIN line
          BY Zenon, <1>3, <3>1, <4>1
        <5> QED
          BY Zenon, <2>1, <5>1 DEF Range
      <4> QED
        BY <1>3, <4>1
    <3>3. p - m \in 1 .. n /\ m + (p - m) = p
      BY <1>3, <3>2
    <3>4. line2[m + (p - m)] = moved[p - m][2]
      BY Zenon, <1>3, <3>3
    <3>5. x = moved[p - m][2]
      BY Zenon, <3>1, <3>3, <3>4
    <3> QED
      BY Zenon, <3>3, <3>5
  <2>2. ASSUME x \in Range(line) PROVE x \in Range(line2)
    <3>1. PICK p \in 1 .. m : line[p] = x
      BY Zenon, <1>3, <2>2 DEF Range
    <3>2. p \in DOMAIN line2 /\ line2[p] = x
      BY <1>3, <3>1
    <3> QED
      BY Zenon, <3>2 DEF Range
  <2>3. ASSUME NEW k \in 1 .. n, x = moved[k][2] PROVE x \in Range(line2)
    <3>1. m + k \in 1 .. m + n
      BY <1>3
    <3> QED
      BY Zenon, <1>3, <2>3, <3>1 DEF Range
  <2> QED
    BY Zenon, <2>1, <2>2, <2>3
<1>6. ASSUME NEW p \in DOMAIN line2 PROVE \E j \in DOMAIN calls : calls[j].task = line2[p]
  <2>1. CASE p \in 1 .. m
    <3>1. p \in DOMAIN line /\ line2[p] = line[p]
      BY Zenon, <1>3, <2>1
    <3> QED
      BY Zenon, <1>0, <3>1
  <2>2. CASE p \notin 1 .. m
    <3>1. p - m \in 1 .. n /\ m + (p - m) = p
      BY <1>3, <2>2
    <3>2. PICK k \in 1 .. n : line2[p] = moved[k][2]
      <4>1. line2[m + (p - m)] = moved[p - m][2]
        BY Zenon, <1>3, <3>1
      <4>2. line2[p] = moved[p - m][2]
        BY Zenon, <3>1, <4>1
      <4> QED
        BY Zenon, <3>1, <4>2
    <3>3. PICK j \in DOMAIN calls : calls[j] = Call(TRUE, moved[k][1], moved[k][2])
      BY Zenon, <1>0, <1>1
    <3>4. calls[j].task = moved[k][2]
      BY <3>3 DEF Call
    <3> QED
      BY Zenon, <3>2, <3>4
  <2> QED
    BY Zenon, <2>1, <2>2
<1>7. ASSUME NEW j \in DOMAIN calls
      PROVE  IF ~calls[j].delayed THEN calls[j].task \in Range(line2)
             ELSE \/ calls[j].task \in Range(line2) /\ calls[j].due <= time
                  \/ /\ calls[j].task \notin Range(line2)
                     /\ <<calls[j].due, calls[j].task>> \in delayed \ expired
  <2> DEFINE e == <<calls[j].due, calls[j].task>>
  <2>1. IF ~calls[j].delayed THEN calls[j].task \in Range(line)
        ELSE \/ calls[j].task \in Range(line) /\ calls[j].due <= time
             \/ calls[j].task \notin Range(line) /\ e \in delayed
    BY Zenon DEF Lined
  <2>2. CASE calls[j].task \in Range(line)
    BY Zenon, <1>5, <2>1, <2>2
  <2>3. CASE calls[j].delayed /\ e \in expired
    <3>1. \E k \in 1 .. n : moved[k] = e
      <4> HIDE DEF e
      <4>1. e \in Range(moved) /\ DOMAIN moved = 1 .. n
        BY Zenon, <2>3
      <4> QED
        BY Zenon, <4>1 DEF Range
    <3>2. PICK k \in 1 .. n : moved[k] = e
      BY Zenon, <3>1
    <3>3. moved[k][2] = calls[j].task /\ moved[k][1] = calls[j].due
      BY <3>2
    <3> QED
      BY Zenon, <1>1, <1>5, <2>3, <3>3
  <2>4. CASE calls[j].delayed /\ calls[j].task \notin Range(line) /\ e \in delayed \ expired
    <3>1. ASSUME NEW k \in 1 .. n, calls[j].task = moved[k][2] PROVE FALSE
      <4>1. calls[j].due = moved[k][1]
        BY Zenon, <1>4, <3>1
      <4>2. moved[k] = e
        BY Zenon, <1>1, <3>1, <4>1
      <4> QED
        BY Zenon, <1>1, <2>4, <4>2
    <3> QED
      BY Zenon, <1>5, <2>4, <3>1
  <2> QED
    BY Zenon, <2>1, <2>2, <2>3, <2>4
<1>8. CallsInOrder(calls, line2)
  <2> SUFFICES ASSUME NEW j \in DOMAIN calls, NEW k \in DOMAIN calls,
                      \/ ~calls[j].delayed /\ ~calls[k].delayed /\ j < k
                      \/ /\ calls[j].delayed /\ calls[k].delayed
                         /\ calls[j].due < calls[k].due,
                      NEW p \in DOMAIN line2, line2[p] = calls[k].task
               PROVE  \E q \in 1 .. p - 1 : line2[q] = calls[j].task
    BY Zenon DEF CallsInOrder, Precedes
  <2>1. CASE p \in 1 .. m
    <3>1. Precedes(line, calls[j].task, calls[k].task)
      BY Zenon DEF Lined, CallsInOrder
    <3>2. PICK q \in 1 .. p - 1 : line[q] = calls[j].task
      BY Zenon, <1>3, <2>1, <3>1 DEF Precedes
    <3> QED
      BY <1>3, <2>1, <3>2
  <2>2. CASE p \notin 1 .. m
    <3>1. PICK a \in 1 .. n : p = m + a
      <4>1. p - m \in 1 .. n /\ p = m + (p - m)
        BY <1>3, <2>2
      <4> QED
        BY Zenon, <4>1
    <3>2. calls[k].task = moved[a][2]
      BY Zenon, <1>3, <3>1
    <3>3. calls[k].delayed /\ calls[k].due = moved[a][1]
      BY Zenon, <1>4, <3>2
    <3>4. calls[j].delayed /\ calls[j].due < moved[a][1] /\ calls[j].due \in Nat
      <4>1. calls[j] \in Calls
        BY Zenon, ElementOfSeq, LenProperties
      <4> QED
        BY Zenon, <3>3, <4>1 DEF Calls
    <3>5. CASE calls[j].task \in Range(line)
      <4>1. PICK q \in 1 .. m : line[q] = calls[j].task
        BY Zenon, <1>3, <3>5 DEF Range
      <4>2. q \in 1 .. p - 1
        BY <1>3, <3>1
      <4> QED
        BY Zenon, <1>3, <4>1, <4>2
    <3>6. CASE <<calls[j].due, calls[j].task>> \in delayed
      <4>1. calls[j].due <= time
        BY <1>1, <3>4
      <4>2. <<calls[j].due, calls[j].task>> \in expired
        BY Zenon, <3>6, <4>1
      <4>3. PICK b \in 1 .. n : moved[b] = <<calls[j].due, calls[j].task>>
        BY Zenon, <4>2 DEF Range
      <4>4. moved[b][1] = calls[j].due /\ moved[b][2] = calls[j].task
        BY <4>3
      <4>5. ~(a <= b)
        <5> SUFFICES ASSUME a <= b PROVE FALSE
          BY Zenon
        <5>1. CASE a = b
          BY <1>1, <3>4, <4>4, <5>1
        <5>2. CASE a < b
          <6>1. moved[a][1] <= moved[b][1]
            <7>1. Before(moved[a], moved[b])
              BY Zenon, <5>2
            <7>2. moved[a][1] < moved[b][1] \/ moved[a][1] = moved[b][1]
              BY Zenon, <7>1 DEF Before
            <7> QED
              BY <1>1, <7>2
          <6> QED
            BY <1>1, <3>4, <4>4, <6>1
        <5> QED
          BY <5>1, <5>2
      <4>6. m + b \in 1 .. p - 1
        <5>1. m \in Nat /\ a \in Nat /\ b \in Nat /\ b >= 1 /\ b < a /\ p = m + a
          <6>1. m \in Nat /\ p = m + a
            BY Zenon, <1>3, <3>1
          <6>2. a \in 1 .. n /\ b \in 1 .. n
            BY Zenon, <3>1, <4>3
          <6> QED
            BY <4>5, <6>1, <6>2
        <5> QED
          BY <5>1
      <4> QED
        BY Zenon, <1>3, <4>4, <4>6
    <3> QED
      BY Zenon, <3>4, <3>5, <3>6 DEF Lined
  <2> QED
    BY Zenon, <2>1, <2>2
<1> QED
  BY Zenon, <1>0, <1>6, <1>7, <1>8 DEF Lined, line2

(* Time only makes more tasks due.                                         *)
LEMMA LineLater ==
  ASSUME NEW calls \in Seq(Calls), NEW line, NEW delayed, NEW time \in Nat,
         Lined(calls, line, delayed, time)
  PROVE  Lined(calls, line, delayed, time + 1)
<1>1. ASSUME NEW j \in DOMAIN calls, calls[j].due <= time PROVE calls[j].due <= time + 1
  <2>1. calls[j] \in Calls
    BY Zenon, ElementOfSeq, LenProperties
  <2>2. calls[j].due \in Nat
    BY Zenon, <2>1 DEF Calls
  <2> QED
    BY <1>1, <2>2
<1> QED
  BY Zenon, <1>1 DEF Lined

(* Pushing at the end of the main queue pushes at the end of the line, and *)
(* starting its first task leaves the line as it is.                       *)
LEMMA LineOfQueues ==
  ASSUME NEW S, NEW a \in Seq(S), NEW b \in Seq(S)
  PROVE  /\ \A t \in S : a \o Append(b, t) = Append(a \o b, t)
         /\ b # <<>> => Append(a, Head(b)) \o Tail(b) = a \o b
<1>1. ASSUME NEW t \in S PROVE a \o Append(b, t) = Append(a \o b, t)
  <2>1. <<t>> \in Seq(S) /\ a \o b \in Seq(S)
    BY <1>1, ConcatProperties
  <2>2. Append(b, t) = b \o <<t>>
    BY Zenon, <1>1, AppendIsConcat
  <2>3. Append(a \o b, t) = (a \o b) \o <<t>>
    BY Zenon, <1>1, <2>1, AppendIsConcat
  <2> QED
    BY <2>1, <2>2, <2>3, ConcatAssociative
<1>2. ASSUME b # <<>> PROVE Append(a, Head(b)) \o Tail(b) = a \o b
  <2>1. Head(b) \in S /\ Tail(b) \in Seq(S) /\ <<Head(b)>> \in Seq(S)
    BY <1>2, HeadTailProperties
  <2>2. <<Head(b)>> \o Tail(b) = b
    BY <1>2, <2>1
  <2>3. Append(a, Head(b)) = a \o <<Head(b)>>
    BY Zenon, <2>1, AppendIsConcat
  <2> QED
    BY <2>1, <2>2, <2>3, ConcatAssociative
<1> QED
  BY Zenon, <1>1, <1>2

(* Tasks that are moved to a queue are moved to the end of the line.       *)
LEMMA JoiningAssociates ==
  ASSUME NEW a \in Seq(Tasks), NEW b \in Seq(Tasks), NEW c \in Seq(Tasks)
  PROVE  a \o (b \o c) = (a \o b) \o c
BY ConcatAssociative

(* No isolate has anything to do at first.                                 *)
LEMMA InitLined == PlatformInit => ForegroundTyping /\ ForegroundIsLined
<1> SUFFICES ASSUME PlatformInit PROVE ForegroundTyping /\ ForegroundIsLined
  BY Zenon
<1>1. ForegroundTyping
  BY FS_EmptySet DEF PlatformInit, ForegroundTyping
<1>2. ASSUME NEW i \in Isolates
      PROVE  /\ scheduled[i] = <<>> /\ executed[i] = <<>> /\ Line(i) = <<>>
             /\ main_thread_delayed_queue[i] = {}
  BY DEF PlatformInit, Line
<1>3. /\ CallsInOrder(<<>>, <<>>)
      /\ Lined(<<>>, <<>>, {}, now)
  BY DEF CallsInOrder, Lined
<1> QED
  BY Zenon, <1>1, <1>2, <1>3 DEF ForegroundIsLined

(* It is enough to show the line of the isolate that a step is about.      *)
LEMMA LinedSuffices ==
  ASSUME ForegroundTyping',
         \A i \in Isolates : Lined(scheduled[i], Line(i), main_thread_delayed_queue[i], now)'
  PROVE  ForegroundIsLined'
<1>1. ASSUME NEW i \in Isolates PROVE CallsInOrder(scheduled[i], executed[i])'
  <2>1. CallsInOrder(scheduled'[i], executed'[i] \o main_thread_queue'[i])
    BY Zenon DEF Lined, Line
  <2>2. executed'[i] \in Seq(Tasks) /\ main_thread_queue'[i] \in Seq(Tasks)
    BY Zenon DEF ForegroundTyping
  <2> QED
    BY Zenon, <2>1, <2>2, FrontOfLine
<1> QED
  BY Zenon, <1>1 DEF ForegroundIsLined

(* CallOnForegroundThread, whoever calls it.                               *)
LEMMA PushKeepsLine ==
  ASSUME ForegroundTyping, ForegroundIsLined, NEW i \in Isolates, NEW t \in Tasks,
         LockFree, PushForeground(i, t),
         UNCHANGED <<main_thread_delayed_queue, now, executed, platform>>
  PROVE  ForegroundTyping' /\ ForegroundIsLined'
<1>1. /\ main_thread_queue' = [main_thread_queue EXCEPT ![i] = Append(main_thread_queue[i], t)]
      /\ scheduled' = [scheduled EXCEPT ![i] = Append(scheduled[i], Call(FALSE, now, t))]
      /\ \A j \in DOMAIN scheduled[i] : scheduled[i][j].task # t
  BY DEF PushForeground, Fresh, ForegroundTasks
<1>2. /\ scheduled[i] \in Seq(Calls) /\ executed[i] \in Seq(Tasks) /\ now \in Nat
      /\ main_thread_queue[i] \in Seq(Tasks)
  BY Zenon DEF ForegroundTyping
<1>3. Call(FALSE, now, t) \in Calls
  BY Zenon, <1>2 DEF Call, Calls
<1>4. Append(scheduled[i], Call(FALSE, now, t)) \in Seq(Calls)
      /\ Append(main_thread_queue[i], t) \in Seq(Tasks)
  BY Zenon, <1>2, <1>3, AppendProperties
<1>5. ForegroundTyping'
  BY Zenon, <1>1, <1>4 DEF ForegroundTyping
<1>6. Line(i) \in Seq(Tasks) /\ Line(i)' = Append(Line(i), t)
  <2>1. main_thread_queue'[i] = Append(main_thread_queue[i], t) /\ executed'[i] = executed[i]
    BY Zenon, <1>1 DEF ForegroundTyping
  <2> QED
    <3>1. executed[i] \o main_thread_queue[i] \in Seq(Tasks)
      BY Zenon, <1>2, ConcatProperties
    <3>2. executed[i] \o Append(main_thread_queue[i], t)
            = Append(executed[i] \o main_thread_queue[i], t)
      BY Zenon, <1>2, LineOfQueues
    <3> QED
      BY Zenon, <2>1, <3>1, <3>2 DEF Line
<1>7. Lined(scheduled[i], Line(i), main_thread_delayed_queue[i], now)
  BY Zenon DEF ForegroundIsLined, LockFree
<1>8. Lined(Append(scheduled[i], Call(FALSE, now, t)), Append(Line(i), t),
            main_thread_delayed_queue[i], now)
  BY Zenon, <1>1, <1>2, <1>6, <1>7, LineGrows
<1>9. ASSUME NEW h \in Isolates
      PROVE  Lined(scheduled[h], Line(h), main_thread_delayed_queue[h], now)'
  <2>1. CASE h = i
    <3>1. /\ scheduled'[h] = Append(scheduled[i], Call(FALSE, now, t)) /\ now' = now
          /\ main_thread_delayed_queue'[h] = main_thread_delayed_queue[i]
      BY Zenon, <1>1, <2>1 DEF ForegroundTyping
    <3> QED
      BY Zenon, <1>6, <1>8, <2>1, <3>1
  <2>2. CASE h # i
    <3>1. /\ scheduled'[h] = scheduled[h] /\ Line(h)' = Line(h) /\ now' = now
          /\ main_thread_delayed_queue'[h] = main_thread_delayed_queue[h]
      BY Zenon, <1>1, <2>2 DEF ForegroundTyping, Line
    <3>2. Lined(scheduled[h], Line(h), main_thread_delayed_queue[h], now)
      BY Zenon DEF ForegroundIsLined, LockFree
    <3> QED
      BY Zenon, <3>1, <3>2
  <2> QED
    BY Zenon, <2>1, <2>2
<1> QED
  BY Zenon, <1>5, <1>9, LinedSuffices

(* CallDelayedOnForegroundThread.                                          *)
LEMMA DelayKeepsLine ==
  ASSUME ForegroundTyping, ForegroundIsLined, NEW i \in Isolates, NEW t \in Tasks,
         NEW delay \in Delays, CallDelayedOnForegroundThread(i, t, delay)
  PROVE  ForegroundTyping' /\ ForegroundIsLined'
<1>0. PICK due \in Nat : due = now + delay /\ due >= now
  BY PlatformAssumption DEF ForegroundTyping
<1>1. /\ main_thread_delayed_queue' = [main_thread_delayed_queue EXCEPT
           ![i] = main_thread_delayed_queue[i] \cup {<<due, t>>}]
      /\ scheduled' = [scheduled EXCEPT ![i] = Append(scheduled[i], Call(TRUE, due, t))]
      /\ \A j \in DOMAIN scheduled[i] : scheduled[i][j].task # t
      /\ UNCHANGED <<main_thread_queue, now, executed, platform>> /\ LockFree
  BY <1>0 DEF CallDelayedOnForegroundThread, Fresh, ForegroundTasks
<1>2. /\ scheduled[i] \in Seq(Calls) /\ executed[i] \in Seq(Tasks) /\ now \in Nat
      /\ main_thread_queue[i] \in Seq(Tasks)
      /\ IsFiniteSet(main_thread_delayed_queue[i])
      /\ main_thread_delayed_queue[i] \subseteq Nat \X Tasks
  BY Zenon DEF ForegroundTyping
<1>3. Call(TRUE, due, t) \in Calls
  BY Zenon, <1>0 DEF Call, Calls
<1>4. Append(scheduled[i], Call(TRUE, due, t)) \in Seq(Calls)
  BY Zenon, <1>2, <1>3, AppendProperties
<1>5. ForegroundTyping'
  <2>1. /\ IsFiniteSet(main_thread_delayed_queue[i] \cup {<<due, t>>})
        /\ main_thread_delayed_queue[i] \cup {<<due, t>>} \subseteq Nat \X Tasks
    <3>1. IsFiniteSet(main_thread_delayed_queue[i] \cup {<<due, t>>})
      BY Zenon, <1>2, FS_AddElement
    <3>2. <<due, t>> \in Nat \X Tasks
      BY Zenon, <1>0
    <3> QED
      BY Zenon, <1>2, <3>1, <3>2
  <2>2. scheduled' \in [Isolates -> Seq(Calls)]
    BY Zenon, <1>1, <1>4 DEF ForegroundTyping
  <2>3. /\ main_thread_delayed_queue' = [h \in Isolates |-> main_thread_delayed_queue'[h]]
        /\ \A h \in Isolates : /\ main_thread_delayed_queue'[h] \subseteq Nat \X Tasks
                               /\ IsFiniteSet(main_thread_delayed_queue'[h])
    BY Zenon, <1>1, <2>1 DEF ForegroundTyping
  <2> QED
    BY Zenon, <1>1, <2>2, <2>3 DEF ForegroundTyping
<1>6. Line(i) \in Seq(Tasks)
  BY Zenon, <1>2, ConcatProperties DEF Line
<1>7. Lined(scheduled[i], Line(i), main_thread_delayed_queue[i], now)
  BY Zenon, <1>1 DEF ForegroundIsLined, LockFree
<1>8. Lined(Append(scheduled[i], Call(TRUE, due, t)), Line(i),
            main_thread_delayed_queue[i] \cup {<<due, t>>}, now)
  BY Zenon, <1>0, <1>1, <1>2, <1>6, <1>7, LineWaits
<1>9. ASSUME NEW h \in Isolates
      PROVE  Lined(scheduled[h], Line(h), main_thread_delayed_queue[h], now)'
  <2>1. Line(h)' = Line(h) /\ now' = now
    BY Zenon, <1>1 DEF Line
  <2>2. CASE h = i
    <3>1. /\ scheduled'[h] = Append(scheduled[i], Call(TRUE, due, t))
          /\ main_thread_delayed_queue'[h] = main_thread_delayed_queue[i] \cup {<<due, t>>}
      BY Zenon, <1>1, <2>2 DEF ForegroundTyping
    <3> QED
      BY Zenon, <1>8, <2>1, <2>2, <3>1
  <2>3. CASE h # i
    <3>1. /\ scheduled'[h] = scheduled[h]
          /\ main_thread_delayed_queue'[h] = main_thread_delayed_queue[h]
      BY Zenon, <1>1, <2>3 DEF ForegroundTyping
    <3>2. Lined(scheduled[h], Line(h), main_thread_delayed_queue[h], now)
      BY Zenon, <1>1 DEF ForegroundIsLined, LockFree
    <3> QED
      BY Zenon, <2>1, <3>1, <3>2
  <2> QED
    BY Zenon, <2>2, <2>3
<1> QED
  BY Zenon, <1>5, <1>9, LinedSuffices

(* PumpMessageLoop: what is due joins the line, and its first task starts. *)
LEMMA PumpKeepsLine ==
  ASSUME ForegroundTyping, ForegroundIsLined, NEW i \in Isolates, PumpMessageLoop(i)
  PROVE  ForegroundTyping' /\ ForegroundIsLined'
<1>1. PICK moved \in Popped(i) :
        /\ Filled(i, moved) # <<>> /\ LockFree
        /\ main_thread_delayed_queue' = [main_thread_delayed_queue EXCEPT
             ![i] = main_thread_delayed_queue[i] \ Expired(i)]
        /\ main_thread_queue' = [main_thread_queue EXCEPT ![i] = Tail(Filled(i, moved))]
        /\ executed' = [executed EXCEPT ![i] = Append(executed[i], Head(Filled(i, moved)))]
        /\ UNCHANGED <<now, scheduled, platform>>
  BY Zenon DEF PumpMessageLoop
<1>2. /\ scheduled[i] \in Seq(Calls) /\ executed[i] \in Seq(Tasks) /\ now \in Nat
      /\ main_thread_queue[i] \in Seq(Tasks)
      /\ IsFiniteSet(main_thread_delayed_queue[i])
      /\ main_thread_delayed_queue[i] \in SUBSET (Nat \X Tasks)
  BY Zenon DEF ForegroundTyping
<1>3. Expired(i) = {e \in main_thread_delayed_queue[i] : e[1] <= now}
  BY Zenon DEF Expired
<1>4. PICK n \in Nat : n = Cardinality(Expired(i))
  <2>1. IsFiniteSet(Expired(i))
    BY Zenon, <1>2, <1>3, FS_Subset
  <2> QED
    BY Zenon, <2>1, FS_CardinalityType
<1>5. /\ moved \in [1 .. n -> Expired(i)] /\ Expired(i) \subseteq Range(moved)
      /\ \A j, k \in 1 .. n : j < k => Before(moved[j], moved[k])
  BY Zenon, <1>1, <1>4 DEF Popped
<1> DEFINE tasks == [k \in 1 .. n |-> moved[k][2]]
<1>6. tasks \in Seq(Tasks) /\ Filled(i, moved) = main_thread_queue[i] \o tasks
  <2>1. ASSUME NEW k \in 1 .. n PROVE moved[k][2] \in Tasks
    <3>1. moved[k] \in Expired(i)
      BY Zenon, <1>5, <2>1
    <3>2. moved[k] \in Nat \X Tasks
      BY Zenon, <1>2, <1>3, <3>1
    <3> QED
      BY Zenon, <3>2
  <2>2. DOMAIN moved = 1 .. n
    BY Zenon, <1>5
  <2> QED
    BY <2>1, <2>2 DEF Filled
<1> HIDE DEF tasks
<1> DEFINE filled == main_thread_queue[i] \o tasks
<1>7. /\ filled \in Seq(Tasks) /\ filled # <<>>
      /\ Head(filled) \in Tasks /\ Tail(filled) \in Seq(Tasks)
  <2>1. filled \in Seq(Tasks) /\ filled # <<>>
    BY Zenon, <1>1, <1>2, <1>6, ConcatProperties
  <2> HIDE DEF filled
  <2> QED
    BY Zenon, <2>1, HeadTailProperties
<1>8. Append(executed[i], Head(filled)) \in Seq(Tasks)
  <2> HIDE DEF filled
  <2> QED
    BY Zenon, <1>2, <1>7, AppendProperties
<1>9. ForegroundTyping'
  <2>1. /\ main_thread_queue' \in [Isolates -> Seq(Tasks)]
        /\ executed' \in [Isolates -> Seq(Tasks)]
    BY Zenon, <1>1, <1>6, <1>7, <1>8 DEF ForegroundTyping
  <2>2. IsFiniteSet(main_thread_delayed_queue[i] \ Expired(i))
    BY Zenon, <1>2, FS_Subset
  <2>3. /\ main_thread_delayed_queue' = [h \in Isolates |-> main_thread_delayed_queue'[h]]
        /\ \A h \in Isolates : /\ main_thread_delayed_queue'[h] \subseteq Nat \X Tasks
                               /\ IsFiniteSet(main_thread_delayed_queue'[h])
    BY Zenon, <1>1, <1>2, <2>2 DEF ForegroundTyping
  <2> QED
    BY Zenon, <1>1, <2>1, <2>3 DEF ForegroundTyping
<1>10. Line(i) \in Seq(Tasks) /\ Line(i)' = Line(i) \o tasks
  <2>1. /\ main_thread_queue'[i] = Tail(filled)
        /\ executed'[i] = Append(executed[i], Head(filled))
    BY Zenon, <1>1, <1>6 DEF ForegroundTyping
  <2>2. executed[i] \o main_thread_queue[i] \in Seq(Tasks)
    BY Zenon, <1>2, ConcatProperties
  <2>3. Append(executed[i], Head(filled)) \o Tail(filled) = executed[i] \o filled
    <3> HIDE DEF filled
    <3> QED
      BY Zenon, <1>2, <1>7, LineOfQueues
  <2>4. executed[i] \o filled = (executed[i] \o main_thread_queue[i]) \o tasks
    <3>1. tasks \in Seq(Tasks)
      BY Zenon, <1>6
    <3> QED
      BY Zenon, <1>2, <3>1, JoiningAssociates
  <2> HIDE DEF filled
  <2> QED
    BY Zenon, <2>1, <2>2, <2>3, <2>4 DEF Line
<1>11. Lined(scheduled[i], Line(i), main_thread_delayed_queue[i], now)
  BY Zenon, <1>1 DEF ForegroundIsLined, LockFree
<1>12. Lined(scheduled[i], Line(i) \o tasks, main_thread_delayed_queue[i] \ Expired(i), now)
  <2>1. ASSUME NEW calls \in Seq(Calls), NEW line \in Seq(Tasks), NEW time \in Nat,
               NEW delayed \in SUBSET (Nat \X Tasks), Lined(calls, line, delayed, time),
               NEW expired, expired = {e \in delayed : e[1] <= time},
               moved \in [1 .. n -> expired], expired \subseteq Range(moved)
        PROVE  Lined(calls, line \o tasks, delayed \ expired, time)
    <3>1. n \in Nat
      BY Zenon, <1>4
    <3>2. \A j, k \in 1 .. n : j < k => Before(moved[j], moved[k])
      BY Zenon, <1>5
    <3>3. tasks \in Seq(Tasks) /\ Len(tasks) = n /\ \A k \in 1 .. n : tasks[k] = moved[k][2]
      BY <1>6, <3>1 DEF tasks
    <3>4. expired \subseteq delayed /\ \A e \in delayed : e \in expired <=> e[1] <= time
      BY Zenon, <2>1
    <3> QED
      BY Zenon, <2>1, <3>1, <3>2, <3>3, <3>4, LineMoves
  <2> QED
    BY Zenon, <1>2, <1>3, <1>5, <1>10, <1>11, <2>1
<1>13. ASSUME NEW h \in Isolates
       PROVE  Lined(scheduled[h], Line(h), main_thread_delayed_queue[h], now)'
  <2>1. CASE h = i
    <3>1. /\ scheduled'[h] = scheduled[i] /\ now' = now
          /\ main_thread_delayed_queue'[h] = main_thread_delayed_queue[i] \ Expired(i)
      BY Zenon, <1>1, <2>1 DEF ForegroundTyping
    <3> QED
      BY Zenon, <1>10, <1>12, <2>1, <3>1
  <2>2. CASE h # i
    <3>1. /\ scheduled'[h] = scheduled[h] /\ Line(h)' = Line(h) /\ now' = now
          /\ main_thread_delayed_queue'[h] = main_thread_delayed_queue[h]
      BY Zenon, <1>1, <2>2 DEF ForegroundTyping, Line
    <3>2. Lined(scheduled[h], Line(h), main_thread_delayed_queue[h], now)
      BY Zenon, <1>1 DEF ForegroundIsLined, LockFree
    <3> QED
      BY Zenon, <3>1, <3>2
  <2> QED
    BY Zenon, <2>1, <2>2
<1> QED
  BY Zenon, <1>9, <1>13, LinedSuffices

(* No step puts a task of an isolate into its line out of order.           *)
LEMMA StepKeepsLine ==
  ASSUME ForegroundTyping, ForegroundIsLined, [PlatformNext]_platformVars
  PROVE  ForegroundTyping' /\ ForegroundIsLined'
<1>1. ASSUME NEW i \in Isolates, NEW t \in Tasks, CallOnForegroundThread(i, t)
      PROVE  ForegroundTyping' /\ ForegroundIsLined'
  BY Zenon, <1>1, PushKeepsLine DEF CallOnForegroundThread
<1>2. ASSUME NEW w \in Workers, NEW i \in Isolates, NEW t \in Tasks, PosterPushes(w, i, t)
      PROVE  ForegroundTyping' /\ ForegroundIsLined'
  BY Zenon, <1>2, PushKeepsLine DEF PosterPushes
<1>3. CASE Tick
  <2>1. /\ now' = now + 1 /\ platform = "alive"
        /\ UNCHANGED <<main_thread_queue, main_thread_delayed_queue, scheduled, executed>>
    BY Zenon, <1>3 DEF Tick
  <2>2. ForegroundTyping'
    BY <2>1 DEF ForegroundTyping
  <2>3. ASSUME NEW i \in Isolates
        PROVE  Lined(scheduled[i], Line(i), main_thread_delayed_queue[i], now)'
    <3>1. Lined(scheduled[i], Line(i), main_thread_delayed_queue[i], now)
      BY Zenon, <2>1 DEF ForegroundIsLined
    <3>2. scheduled[i] \in Seq(Calls) /\ now \in Nat
      BY Zenon DEF ForegroundTyping
    <3>3. Lined(scheduled[i], Line(i), main_thread_delayed_queue[i], now + 1)
      BY Zenon, <3>1, <3>2, LineLater
    <3>4. Line(i)' = Line(i)
      BY Zenon, <2>1 DEF Line
    <3> QED
      BY Zenon, <2>1, <3>3, <3>4
  <2> QED
    BY Zenon, <2>2, <2>3, LinedSuffices
<1>4. CASE DestructorEnds
  <2>1. /\ main_thread_queue' = [i \in Isolates |-> <<>>]
        /\ main_thread_delayed_queue' = [i \in Isolates |-> {}]
        /\ platform' = "gone" /\ UNCHANGED <<now, scheduled, executed>>
    BY Zenon, <1>4 DEF DestructorEnds
  <2>2. ForegroundTyping'
    BY <2>1, FS_EmptySet DEF ForegroundTyping
  <2>3. ForegroundIsLined'
    BY Zenon, <2>1 DEF ForegroundIsLined
  <2> QED
    BY Zenon, <2>2, <2>3
<1>5. ASSUME UNCHANGED <<main_thread_queue, main_thread_delayed_queue, now, scheduled, executed>>,
             platform = "gone" => platform' = "gone"
      PROVE  ForegroundTyping' /\ ForegroundIsLined'
  <2>1. ForegroundTyping'
    BY Zenon, <1>5 DEF ForegroundTyping
  <2>2. \A i \in Isolates : Line(i)' = Line(i)
    BY Zenon, <1>5 DEF Line
  <2>3. ForegroundIsLined'
    <3>1. ASSUME NEW i \in Isolates, platform' # "gone"
          PROVE  Lined(scheduled[i], Line(i), main_thread_delayed_queue[i], now)'
      <4>1. Lined(scheduled[i], Line(i), main_thread_delayed_queue[i], now)
        BY Zenon, <1>5, <3>1 DEF ForegroundIsLined
      <4> QED
        BY Zenon, <1>5, <2>2, <4>1
    <3>2. ASSUME NEW i \in Isolates PROVE CallsInOrder(scheduled[i], executed[i])'
      <4>1. CallsInOrder(scheduled[i], executed[i])
        BY Zenon DEF ForegroundIsLined
      <4> QED
        BY Zenon, <1>5, <4>1
    <3>3. platform' # "gone" =>
            \A i \in Isolates : Lined(scheduled[i], Line(i), main_thread_delayed_queue[i], now)'
      BY Zenon, <3>1
    <3> QED
      BY Zenon, <3>2, <3>3 DEF ForegroundIsLined
  <2> QED
    BY Zenon, <2>1, <2>3
<1>6. CASE \/ EnsureInitialized
           \/ \E t \in Tasks : CallOnBackgroundThread(t)
           \/ \E w \in Workers : PosterCalls(w)
           \/ \E i \in Isolates : ForegroundTaskEnds(i)
           \/ \E w \in Workers : WorkerStep(w)
           \/ SetTracingController
           \/ DestructorStarts
           \/ UNCHANGED platformVars
  BY Zenon, <1>5, <1>6 DEF EnsureInitialized, CallOnBackgroundThread, PosterCalls, ForegroundTaskEnds,
    WorkerStep, SetTracingController, DestructorStarts, foregroundVars, platformVars
<1> QED
  BY Zenon, <1>1, <1>2, <1>3, <1>4, <1>6, DelayKeepsLine, PumpKeepsLine DEF PlatformNext

(* For any isolates, posters and delays: foreground tasks start in the     *)
(* order of the calls, and delayed ones in the order of their deadlines.   *)
THEOREM ForegroundTasksAreOrdered == PlatformSpec => []ForegroundOrder
<1>1. PlatformInit => ForegroundTyping /\ ForegroundIsLined
  BY Zenon, InitLined
<1>2. /\ ForegroundTyping /\ ForegroundIsLined /\ [PlatformNext]_platformVars
      => ForegroundTyping' /\ ForegroundIsLined'
  BY Zenon, StepKeepsLine
<1>3. ForegroundIsLined => ForegroundOrder
  BY Zenon, OrderOfCalls DEF ForegroundIsLined
<1> QED
  BY <1>1, <1>2, <1>3, PTL DEF PlatformSpec
=============================================================================
