----------------------------- MODULE TaskQueue ------------------------------
(***************************************************************************)
(* The queue of background tasks and the worker threads that empty it      *)
(* (src/src/libplatform/task-queue.cc and worker-thread.cc).               *)
(*                                                                         *)
(* Each critical section of lock_ is one action.  GetNext is a loop of two *)
(* steps, the look into the queue and the wait on the semaphore, between   *)
(* which other threads append, pop and terminate.  The semaphore counts    *)
(* signals: a worker that finds a task does not consume the signal that    *)
(* announced it, so signals and tasks come apart.                          *)
(***************************************************************************)
EXTENDS Integers, Sequences, FiniteSets

CONSTANTS
  Workers,   \* the threads of the pool
  Tasks,     \* the tasks that may be posted, each at most once
  NoTask     \* NULL

ASSUME TaskQueueAssumption ==
  /\ IsFiniteSet(Workers)
  /\ NoTask \notin Tasks

VARIABLES
  task_queue,   \* task_queue_
  terminated,   \* terminated_
  semaphore,    \* the count of process_queue_semaphore_
  worker,       \* [Workers -> WorkerPc]: where each thread is
  current,      \* [Workers -> Tasks \cup {NoTask}]: the task it runs
  posted,       \* tasks appended so far
  finished      \* tasks run and deleted so far

vars == <<task_queue, terminated, semaphore, worker, current, posted, finished>>

(* "none": the thread does not exist yet; "get": about to take lock_ in    *)
(* GetNext; "wait": in process_queue_semaphore_.Wait(); "run": in Run() of *)
(* its task; "exited": GetNext returned NULL and the thread ended.         *)
WorkerPc == {"none", "get", "wait", "run", "exited"}

At(pc) == {w \in Workers : worker[w] = pc}

Init ==
  /\ task_queue = <<>>
  /\ terminated = FALSE
  /\ semaphore = 0
  /\ worker = [w \in Workers |-> "none"]
  /\ current = [w \in Workers |-> NoTask]
  /\ posted = {}
  /\ finished = {}
-----------------------------------------------------------------------------
(* WorkerThread::WorkerThread, for every thread of the pool.               *)
StartWorkers ==
  /\ \A w \in Workers : worker[w] = "none"
  /\ worker' = [w \in Workers |-> "get"]
  /\ UNCHANGED <<task_queue, terminated, semaphore, current, posted, finished>>

(* Mutant: only the first task of a burst is announced.                    *)
MutAppend(t) ==
  /\ ~terminated
  /\ t \notin posted
  /\ task_queue' = Append(task_queue, t)
  /\ semaphore' = IF task_queue = <<>> THEN semaphore + 1 ELSE semaphore
  /\ posted' = posted \cup {t}
  /\ UNCHANGED <<terminated, worker, current, finished>>

(* TaskQueue::Append; not after Terminate, by its DCHECK.                  *)
AppendTask(t) ==
  /\ ~terminated
  /\ t \notin posted
  /\ task_queue' = Append(task_queue, t)
  /\ semaphore' = semaphore + 1
  /\ posted' = posted \cup {t}
  /\ UNCHANGED <<terminated, worker, current, finished>>

(* GetNext finds a task, and WorkerThread::Run starts it.                  *)
GetTask(w) ==
  /\ worker[w] = "get"
  /\ task_queue # <<>>
  /\ current' = [current EXCEPT ![w] = Head(task_queue)]
  /\ task_queue' = Tail(task_queue)
  /\ worker' = [worker EXCEPT ![w] = "run"]
  /\ UNCHANGED <<terminated, semaphore, posted, finished>>

(* Mutant: the next worker is not told.                                    *)
MutGetNull(w) ==
  /\ worker[w] = "get"
  /\ task_queue = <<>>
  /\ terminated
  /\ worker' = [worker EXCEPT ![w] = "exited"]
  /\ UNCHANGED <<task_queue, terminated, semaphore, current, posted, finished>>

(* GetNext finds the queue empty for good: it wakes the next worker up and *)
(* returns NULL, which ends the thread.                                    *)
GetNull(w) ==
  /\ worker[w] = "get"
  /\ task_queue = <<>>
  /\ terminated
  /\ semaphore' = semaphore + 1
  /\ worker' = [worker EXCEPT ![w] = "exited"]
  /\ UNCHANGED <<task_queue, terminated, current, posted, finished>>

(* GetNext finds nothing, releases lock_ and is about to wait.             *)
GetNothing(w) ==
  /\ worker[w] = "get"
  /\ task_queue = <<>>
  /\ ~terminated
  /\ worker' = [worker EXCEPT ![w] = "wait"]
  /\ UNCHANGED <<task_queue, terminated, semaphore, current, posted, finished>>

(* Semaphore::Wait returns.                                                *)
SemaphoreWait(w) ==
  /\ worker[w] = "wait"
  /\ semaphore > 0
  /\ semaphore' = semaphore - 1
  /\ worker' = [worker EXCEPT ![w] = "get"]
  /\ UNCHANGED <<task_queue, terminated, current, posted, finished>>

(* WorkerThread::Run: task->Run() returns and the task is deleted.         *)
TaskEnds(w) ==
  /\ worker[w] = "run"
  /\ finished' = finished \cup {current[w]}
  /\ current' = [current EXCEPT ![w] = NoTask]
  /\ worker' = [worker EXCEPT ![w] = "get"]
  /\ UNCHANGED <<task_queue, terminated, semaphore, posted>>

Terminate ==
  /\ ~terminated
  /\ terminated' = TRUE
  /\ semaphore' = semaphore + 1
  /\ UNCHANGED <<task_queue, worker, current, posted, finished>>
-----------------------------------------------------------------------------
Step(w) ==
  \/ GetTask(w)
  \/ GetNull(w)
  \/ GetNothing(w)
  \/ SemaphoreWait(w)
  \/ TaskEnds(w)

Next ==
  \/ StartWorkers
  \/ \E t \in Tasks : AppendTask(t)
  \/ \E w \in Workers : Step(w)
  \/ Terminate

Spec == Init /\ [][Next]_vars

(* The operating system runs every thread, and tasks end.  A worker that   *)
(* waits competes for signals with others, and may lose each time.         *)
FairSpec == Spec /\ \A w \in Workers : WF_vars(Step(w))
-----------------------------------------------------------------------------
(* Every variable stays in its domain.                                     *)
TypeOK ==
  /\ task_queue \in Seq(Tasks)
  /\ terminated \in BOOLEAN
  /\ semaphore \in Nat
  /\ worker \in [Workers -> WorkerPc]
  /\ current \in [Workers -> Tasks \cup {NoTask}]
  /\ posted \subseteq Tasks
  /\ finished \subseteq Tasks

(* For each task in the queue there is a signal not yet consumed or a      *)
(* worker on its way to the queue: no worker sleeps in Wait() while there  *)
(* is more to do than the awake ones are about to take, although workers   *)
(* pop tasks without consuming their signals and consume signals without   *)
(* finding tasks.                                                          *)
WorkConserving == Len(task_queue) <= semaphore + Cardinality(At("get"))

(* After Terminate the one signal it sends goes from worker to worker: as  *)
(* long as a worker sleeps, there is a signal for it or a worker that will *)
(* send one.                                                               *)
TerminationIsPassedOn ==
  terminated /\ At("wait") # {} =>
    semaphore > 0 \/ At("get") \cup At("run") # {}

(* A worker ends only when everything is done: Terminate drops no task.    *)
(* This is the DCHECK(task_queue_.empty()) of ~TaskQueue once the pool has *)
(* been joined.                                                            *)
ExitedMeansDrained ==
  At("exited") # {} => terminated /\ task_queue = <<>>

(* Shutdown is passed on to every sleeper and drops nothing.               *)
OrderlyTermination == TerminationIsPassedOn /\ ExitedMeansDrained

(* Once the pool runs, posted tasks get run.                               *)
PostedTasksRun ==
  \A t \in Tasks : t \in posted /\ At("none") = {} ~> t \in finished

(* Terminate ends every worker of the pool, so that joining them returns.  *)
WorkersExit == terminated /\ At("none") = {} ~> At("exited") = Workers

(* The pool does what is asked of it: tasks and termination.               *)
PoolMakesProgress == PostedTasksRun /\ WorkersExit
=============================================================================
