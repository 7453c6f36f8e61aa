-------------------------- MODULE PageParallelJob ---------------------------
(***************************************************************************)
(* A parallel job of the collector (src/src/heap/page-parallel-job.h): the *)
(* main thread and background tasks process the pages of a list together.  *)
(* Run returns when every task has either signalled the semaphore or been  *)
(* aborted before it started; the job, its pages and the semaphore's       *)
(* owner go on from there.                                                 *)
(*                                                                         *)
(* Grain: one atomic access to a page's state, one semaphore operation or  *)
(* one change of a task's status_ per step.  The map of the                *)
(* CancelableTaskManager is exact (CancelableTask), so TryAbort is told    *)
(* from status_ and from whether the task has been deleted.                *)
(*                                                                         *)
(* Its specification is JobSpec, so that an instance may extend this       *)
(* module together with MemoryReducer.                                     *)
(***************************************************************************)
EXTENDS Integers, FiniteSets

CONSTANTS
  MaxItems,         \* bound: pages of the job
  kMaxNumberOfTasks,
  MaxThreads        \* bound: NumberOfAvailableBackgroundThreads

ASSUME JobAssumption ==
  MaxItems \in Nat /\ kMaxNumberOfTasks \in Nat \ {0} /\ MaxThreads \in Nat

TaskIds == 0 .. kMaxNumberOfTasks - 1
Items == 0 .. MaxItems - 1

VARIABLES
  main,         \* where the main thread is in Run
  i,            \* the counter of its loops over the tasks
  next_start,   \* start_index of Run
  num_items, num_tasks,
  item_state,   \* [Items -> ProcessingState]
  task,         \* [TaskIds -> TaskPc]: where each task is
  current,      \* [TaskIds -> Nat]: the page a task looks at
  steps,        \* [TaskIds -> Nat]: the counter of its loop
  pending_tasks \* the value of the semaphore

runVars == <<main, i, next_start, num_items, num_tasks>>
jobVars == <<runVars, item_state, task, current, steps, pending_tasks>>

ProcessingState == {"kAvailable", "kProcessing", "kFinished", "kFailed"}

(* "idle": before Run; "create": in the loop that creates tasks; "work":   *)
(* in main_task->Run(); "collect": in the loop that aborts or waits;       *)
(* "blocked": in pending_tasks_->Wait(); "done": Run has returned.         *)
MainPc == {"idle", "create", "work", "collect", "blocked", "done"}

(* "none": not created; "waiting": status_ is kWaiting; "canceled": it was *)
(* aborted; "look", "process": in the loop of RunInternal, before the      *)
(* compare-and-swap and after it; "signal": past the loop; "over": it has  *)
(* signalled, and does not touch the job any more.                         *)
TaskPc == {"none", "waiting", "canceled", "look", "process", "signal", "over"}

Smaller(a, b) == IF a < b THEN a ELSE b
Larger(a, b) == IF a > b THEN a ELSE b

JobInit ==
  /\ main = "idle"
  /\ i = 0 /\ next_start = 0
  /\ num_items = 0 /\ num_tasks = 0
  /\ item_state = [k \in Items |-> "kAvailable"]
  /\ task = [t \in TaskIds |-> "none"]
  /\ current = [t \in TaskIds |-> 0]
  /\ steps = [t \in TaskIds |-> 0]
  /\ pending_tasks = 0
-----------------------------------------------------------------------------
(* Run: n pages have been added, and the caller wants num tasks of a       *)
(* platform with so many threads.                                          *)
Run(n, num, threads) ==
  /\ main = "idle"
  /\ num_items' = n
  /\ IF n = 0
     THEN main' = "done" /\ UNCHANGED num_tasks
     ELSE /\ main' = "create"
          /\ num_tasks' = Larger(1, Smaller(num, Smaller(kMaxNumberOfTasks, threads)))
  /\ UNCHANGED <<i, next_start, item_state, task, current, steps, pending_tasks>>

ItemsPerTask == (num_items + num_tasks - 1) \div num_tasks

(* One iteration of the loop that creates tasks: the first is kept for the *)
(* main thread, which runs it after the loop, the others are posted.       *)
CreateTask ==
  LET start == IF next_start >= num_items THEN next_start - num_items
               ELSE next_start
  IN  /\ main = "create" /\ i < num_tasks
      /\ current' = [current EXCEPT ![i] = start]
      /\ task' = [task EXCEPT ![i] = "waiting"]
      /\ next_start' = start + ItemsPerTask
      /\ i' = i + 1
      /\ UNCHANGED <<main, num_items, num_tasks, item_state, steps, pending_tasks>>

(* main_task->Run().                                                       *)
RunMainTask ==
  /\ main = "create" /\ i = num_tasks
  /\ main' = "work"
  /\ task' = [task EXCEPT ![0] = "look"]
  /\ UNCHANGED <<i, next_start, num_items, num_tasks, item_state, current,
                 steps, pending_tasks>>

(* Mutant: the signal of the main task is not waited for.                  *)
MutMainTaskReturns ==
  /\ main = "work" /\ task[0] = "over"
  /\ main' = "collect"
  /\ i' = 1
  /\ UNCHANGED <<next_start, num_items, num_tasks, item_state, task, current,
                 steps, pending_tasks>>

MainTaskReturns ==
  /\ main = "work" /\ task[0] = "over"
  /\ main' = "collect"
  /\ i' = 0
  /\ UNCHANGED <<next_start, num_items, num_tasks, item_state, task, current,
                 steps, pending_tasks>>

(* Mutant: no task is aborted.                                             *)
MutNoAbort ==
  /\ main = "collect" /\ i < num_tasks
  /\ main' = "blocked"
  /\ UNCHANGED <<task, i, next_start, num_items, num_tasks, item_state, current,
                 steps, pending_tasks>>

(* TryAbort(task_ids[i]): it succeeds if the task has not started.         *)
TryAbortTask ==
  /\ main = "collect" /\ i < num_tasks
  /\ IF task[i] = "waiting"
     THEN /\ task' = [task EXCEPT ![i] = "canceled"]
          /\ i' = i + 1
          /\ UNCHANGED main
     ELSE main' = "blocked" /\ UNCHANGED <<task, i>>
  /\ UNCHANGED <<next_start, num_items, num_tasks, item_state, current, steps,
                 pending_tasks>>

(* pending_tasks_->Wait() returns.                                         *)
SemaphoreWait ==
  /\ main = "blocked" /\ pending_tasks > 0
  /\ pending_tasks' = pending_tasks - 1
  /\ main' = "collect"
  /\ i' = i + 1
  /\ UNCHANGED <<next_start, num_items, num_tasks, item_state, task, current, steps>>

(* The finalisation of the pages, one by one, and the return of Run.       *)
FinalizePages ==
  /\ main = "collect" /\ i = num_tasks
  /\ main' = "done"
  /\ UNCHANGED <<i, next_start, num_items, num_tasks, item_state, task, current,
                 steps, pending_tasks>>
-----------------------------------------------------------------------------
(* A background thread gets to the task: TryRun, and RunInternal.          *)
StartTask(t) ==
  /\ t > 0 /\ task[t] = "waiting"
  /\ task' = [task EXCEPT ![t] = "look"]
  /\ UNCHANGED <<runVars, item_state, current, steps, pending_tasks>>

(* The next page, and the end of the loop.                                 *)
Advance(t) ==
  /\ current' = [current EXCEPT ![t] = (current[t] + 1) % num_items]
  /\ steps' = [steps EXCEPT ![t] = steps[t] + 1]
  /\ task' = [task EXCEPT ![t] = IF steps[t] + 1 = num_items THEN "signal"
                                 ELSE "look"]

(* The task takes the page if its state is one of states, or goes on.      *)
Take(t, states) ==
  /\ task[t] = "look"
  /\ IF item_state[current[t]] \in states
     THEN /\ item_state' = [item_state EXCEPT ![current[t]] = "kProcessing"]
          /\ task' = [task EXCEPT ![t] = "process"]
          /\ UNCHANGED <<current, steps>>
     ELSE Advance(t) /\ UNCHANGED item_state
  /\ UNCHANGED <<runVars, pending_tasks>>

(* Mutant: a page that is being processed is taken.                        *)
MutTakeTwice(t) == Take(t, {"kAvailable", "kProcessing"})

(* TrySetValue(kAvailable, kProcessing).                                   *)
LookAtPage(t) == Take(t, {"kAvailable"})

(* ProcessPageInParallel has returned.                                     *)
PageProcessed(t, success) ==
  /\ task[t] = "process"
  /\ item_state' = [item_state EXCEPT ![current[t]] =
                      IF success THEN "kFinished" ELSE "kFailed"]
  /\ Advance(t)
  /\ UNCHANGED <<runVars, pending_tasks>>

(* on_finish_->Signal().                                                   *)
Signal(t) ==
  /\ task[t] = "signal"
  /\ pending_tasks' = pending_tasks + 1
  /\ task' = [task EXCEPT ![t] = "over"]
  /\ UNCHANGED <<runVars, item_state, current, steps>>
-----------------------------------------------------------------------------
MainStep ==
  \/ CreateTask
  \/ RunMainTask
  \/ MainTaskReturns
  \/ TryAbortTask
  \/ SemaphoreWait
  \/ FinalizePages

TaskStep(t) ==
  \/ LookAtPage(t)
  \/ \E success \in BOOLEAN : PageProcessed(t, success)
  \/ Signal(t)

JobNext ==
  \/ \E n \in 0 .. MaxItems, num \in 1 .. kMaxNumberOfTasks,
        threads \in 0 .. MaxThreads : Run(n, num, threads)
  \/ MainStep
  \/ \E t \in TaskIds : StartTask(t) \/ TaskStep(t)

JobSpec == JobInit /\ [][JobNext]_jobVars

(* The main thread goes on, and so does a task that has started.  Nothing  *)
(* is assumed of the platform: it may leave every task waiting.            *)
FairJobSpec ==
  /\ JobSpec
  /\ WF_jobVars(MainStep)
  /\ \A t \in TaskIds : WF_jobVars(TaskStep(t))
-----------------------------------------------------------------------------
(* A page is processed once, by one of the tasks that walk the list: the   *)
(* outcome of a page that has been processed is not written again.         *)
ProcessedOnce ==
  [][\A k \in Items : item_state[k] \in {"kFinished", "kFailed"}
       => item_state'[k] = item_state[k]]_jobVars

(* When Run returns, every page has been processed and no task will touch  *)
(* the list again, so that it may be finalised and freed; the semaphore,   *)
(* shared by the jobs of a collector, is back at 0 as the comment on the   *)
(* constructor guarantees.                                                 *)
JobIsOver ==
  main = "done" =>
    /\ \A k \in 0 .. num_items - 1 : item_state[k] \in {"kFinished", "kFailed"}
    /\ \A t \in TaskIds : task[t] \in {"none", "canceled", "over"}
    /\ pending_tasks = 0

(* Run returns, even if no background thread ever gets to its tasks.       *)
RunReturns == main = "create" ~> main = "done"
=============================================================================
