--------------------------- MODULE CancelableTask ---------------------------
(***************************************************************************)
(* Cancelable tasks (src/src/cancelable-task.{h,cc}).                      *)
(*                                                                         *)
(* V8 hands a task to the platform, which owns it from then on: some       *)
(* thread runs it (Run, then delete) or deletes it unrun.  The isolate     *)
(* keeps a CancelableTaskManager with a pointer to every task that is not  *)
(* over, through which a task can be aborted before it starts (TryAbort)   *)
(* and which the isolate closes with CancelAndWait before it dies.         *)
(*                                                                         *)
(* Grain.  mutex_ makes Register, RemoveFinishedTask and TryAbort single   *)
(* steps.  CancelAndWait holds mutex_ over a whole scan of the map, one    *)
(* Cancel per step, because TryRun and the destructor's checks are         *)
(* lock-free compare-and-swaps on status_ that run between those steps.    *)
(***************************************************************************)
EXTENDS Integers, FiniteSets

CONSTANTS
  Tasks,        \* the Cancelable objects that may be created
  Stubborn,     \* tasks whose RunInternal ends only after CancelAttempts() > 0
  NoTask,       \* no entry
  IdModulus,    \* size of the uint32_t id space (2^32 in the code)
  MaxAborts,    \* bound: calls of TryAbort
  MaxSpurious   \* bound: spurious wakeups of the condition variable

ASSUME CancelableAssumption ==
  /\ NoTask \notin Tasks
  /\ Stubborn \subseteq Tasks
  /\ IdModulus \in Nat \ {0}
  /\ MaxAborts \in Nat
  /\ MaxSpurious \in Nat

Ids == 0 .. IdModulus - 1

VARIABLES
  object,           \* [Tasks -> Progress]: what the owner does with the object
  status,           \* [Tasks -> Status]: status_
  id,               \* [Tasks -> Ids]: id_
  cancel_counter,   \* [Tasks -> Nat]: cancel_counter_
  task_id_counter,  \* task_id_counter_
  cancelable_tasks, \* [Ids -> Tasks \cup {NoTask}]: cancelable_tasks_
  canceler,         \* where the isolate's thread is in CancelAndWait
  scan,             \* ids the for loop of CancelAndWait has still to visit
  aborts,           \* calls of TryAbort so far
  spurious          \* spurious wakeups so far

vars == <<object, status, id, cancel_counter, task_id_counter,
          cancelable_tasks, canceler, scan, aborts, spurious>>

Status == {"kWaiting", "kCanceled", "kRunning"}

(* "destroying": the owner has entered ~Cancelable; "checking": TryRun      *)
(* failed there, IsRunning is evaluated next; "removing": it is about to   *)
(* call RemoveFinishedTask.                                                *)
Progress == {"unborn", "queued", "running", "destroying", "checking",
             "removing", "deleted"}

(* "idle": CancelAndWait not called yet; "scan": in the for loop, holding  *)
(* mutex_; "wait": blocked in the condition variable; "relock": woken up,  *)
(* about to take mutex_ again; "done": returned, the manager dies.         *)
CancelerPc == {"idle", "scan", "wait", "relock", "done"}

Live(t) == object[t] \notin {"unborn", "deleted"}

Registered == {i \in Ids : cancelable_tasks[i] # NoTask}

(* mutex_ is held from one step to the next only by the scan.              *)
MutexFree == canceler # "scan"

(* The isolate's thread and the tasks that are executing can call the      *)
(* manager; nobody else has a reason to.                                   *)
CallerExists == canceler = "idle" \/ \E t \in Tasks : object[t] = "running"

Init ==
  /\ object = [t \in Tasks |-> "unborn"]
  /\ status = [t \in Tasks |-> "kWaiting"]
  /\ id = [t \in Tasks |-> 0]
  /\ cancel_counter = [t \in Tasks |-> 0]
  /\ task_id_counter = 0
  /\ cancelable_tasks = [i \in Ids |-> NoTask]
  /\ canceler = "idle"
  /\ scan = {}
  /\ aborts = 0
  /\ spurious = 0
-----------------------------------------------------------------------------
(* Mutant: the counter's successor is taken even if that id is in use.     *)
MutIsNextFreeId(new) == new = (task_id_counter + 1) % IdModulus

(* The id Register takes: the first one after the counter, modulo the      *)
(* width, that is not in the map.  With no id free the loop never ends and *)
(* there is no such id.                                                    *)
IsNextFreeId(new) ==
  \E k \in 0 .. IdModulus - 1 :
    /\ new = (task_id_counter + 1 + k) % IdModulus
    /\ new \notin Registered
    /\ \A j \in 0 .. k - 1 :
         (task_id_counter + 1 + j) % IdModulus \in Registered

(* Cancelable::Cancelable, and the hand-over of the task to the platform.  *)
Register(t) ==
  /\ object[t] = "unborn"
  /\ CallerExists
  /\ MutexFree
  /\ \E new \in Ids :
       /\ IsNextFreeId(new)
       /\ id' = [id EXCEPT ![t] = new]
       /\ cancelable_tasks' = [cancelable_tasks EXCEPT ![new] = t]
  /\ task_id_counter' = (task_id_counter + 1) % IdModulus
  /\ object' = [object EXCEPT ![t] = "queued"]
  /\ UNCHANGED <<status, cancel_counter, canceler, scan, aborts, spurious>>

(* NotifyOne on cancelable_tasks_barrier_: only CancelAndWait waits there. *)
NotifyOne ==
  canceler' = IF canceler = "wait" THEN "relock" ELSE canceler

(* CancelableTask::Run: TryRun succeeds and RunInternal starts.            *)
RunStarts(t) ==
  /\ object[t] = "queued"
  /\ status[t] = "kWaiting"
  /\ status' = [status EXCEPT ![t] = "kRunning"]
  /\ object' = [object EXCEPT ![t] = "running"]
  /\ UNCHANGED <<id, cancel_counter, task_id_counter, cancelable_tasks,
                 canceler, scan, aborts, spurious>>

(* CancelableTask::Run: TryRun fails, Run returns, the owner deletes.      *)
RunSkips(t) ==
  /\ object[t] = "queued"
  /\ status[t] # "kWaiting"
  /\ object' = [object EXCEPT ![t] = "destroying"]
  /\ UNCHANGED <<status, id, cancel_counter, task_id_counter,
                 cancelable_tasks, canceler, scan, aborts, spurious>>

(* RunInternal returns and the owner deletes the task.                     *)
RunEnds(t) ==
  /\ object[t] = "running"
  /\ t \in Stubborn => cancel_counter[t] > 0
  /\ object' = [object EXCEPT ![t] = "destroying"]
  /\ UNCHANGED <<status, id, cancel_counter, task_id_counter,
                 cancelable_tasks, canceler, scan, aborts, spurious>>

(* A platform that shuts down deletes a task it never ran.                 *)
DeleteUnrun(t) ==
  /\ object[t] = "queued"
  /\ object' = [object EXCEPT ![t] = "destroying"]
  /\ UNCHANGED <<status, id, cancel_counter, task_id_counter,
                 cancelable_tasks, canceler, scan, aborts, spurious>>

(* ~Cancelable, first operand: TryRun().                                   *)
DestructorTryRun(t) ==
  /\ object[t] = "destroying"
  /\ \/ /\ status[t] = "kWaiting"
        /\ status' = [status EXCEPT ![t] = "kRunning"]
        /\ object' = [object EXCEPT ![t] = "removing"]
     \/ /\ status[t] # "kWaiting"
        /\ object' = [object EXCEPT ![t] = "checking"]
        /\ UNCHANGED status
  /\ UNCHANGED <<id, cancel_counter, task_id_counter, cancelable_tasks,
                 canceler, scan, aborts, spurious>>

(* ~Cancelable, second operand: IsRunning().  A canceled task is deleted   *)
(* without a call of the manager, which may be gone.                       *)
DestructorIsRunning(t) ==
  /\ object[t] = "checking"
  /\ object' = [object EXCEPT
       ![t] = IF status[t] = "kRunning" THEN "removing" ELSE "deleted"]
  /\ UNCHANGED <<status, id, cancel_counter, task_id_counter,
                 cancelable_tasks, canceler, scan, aborts, spurious>>

(* Mutant: nobody is notified.                                             *)
MutRemoveFinishedTask(t) ==
  /\ object[t] = "removing"
  /\ MutexFree
  /\ cancelable_tasks' = [cancelable_tasks EXCEPT ![id[t]] = NoTask]
  /\ object' = [object EXCEPT ![t] = "deleted"]
  /\ UNCHANGED <<status, id, cancel_counter, task_id_counter, canceler, scan,
                 aborts, spurious>>

RemoveFinishedTask(t) ==
  /\ object[t] = "removing"
  /\ MutexFree
  /\ cancelable_tasks' = [cancelable_tasks EXCEPT ![id[t]] = NoTask]
  /\ NotifyOne
  /\ object' = [object EXCEPT ![t] = "deleted"]
  /\ UNCHANGED <<status, id, cancel_counter, task_id_counter, scan, aborts,
                 spurious>>
-----------------------------------------------------------------------------
(* Mutant: failed attempts to cancel are not counted.                      *)
MutCancelEntry(i) ==
  LET t == cancelable_tasks[i]
      won == status[t] = "kWaiting"
  IN  /\ status' = IF won THEN [status EXCEPT ![t] = "kCanceled"] ELSE status
      /\ cancelable_tasks' = IF won THEN [cancelable_tasks EXCEPT ![i] = NoTask]
                             ELSE cancelable_tasks
      /\ UNCHANGED cancel_counter

(* Cancelable::Cancel on the task under id i, and the erase that its       *)
(* callers do when it succeeds.                                            *)
CancelEntry(i) ==
  LET t == cancelable_tasks[i]
  IN  \/ /\ status[t] = "kWaiting"
         /\ status' = [status EXCEPT ![t] = "kCanceled"]
         /\ cancelable_tasks' = [cancelable_tasks EXCEPT ![i] = NoTask]
         /\ UNCHANGED cancel_counter
      \/ /\ status[t] # "kWaiting"
         /\ cancel_counter' = [cancel_counter EXCEPT ![t] = @ + 1]
         /\ UNCHANGED <<status, cancelable_tasks>>

TryAbort(i) ==
  /\ CallerExists
  /\ MutexFree
  /\ aborts < MaxAborts
  /\ aborts' = aborts + 1
  /\ \/ /\ i \notin Registered
        /\ UNCHANGED <<status, cancelable_tasks, cancel_counter, canceler>>
     \/ /\ i \in Registered
        /\ CancelEntry(i)
        /\ IF cancelable_tasks'[i] = NoTask THEN NotifyOne ELSE UNCHANGED canceler
  /\ UNCHANGED <<object, id, task_id_counter, scan, spurious>>

(* The test of the while loop of CancelAndWait, with mutex_ just taken.    *)
WhileNotEmpty ==
  /\ canceler' = IF Registered = {} THEN "done" ELSE "scan"
  /\ scan' = Registered
  /\ UNCHANGED <<object, status, id, cancel_counter, task_id_counter,
                 cancelable_tasks, aborts, spurious>>

CancelAndWait == canceler = "idle" /\ WhileNotEmpty

(* One iteration of the for loop, in the order of the ids of the map.      *)
CancelNext ==
  /\ canceler = "scan"
  /\ \E i \in scan :
       /\ \A j \in scan : i <= j
       /\ CancelEntry(i)
       /\ scan' = scan \ {i}
  /\ UNCHANGED <<object, id, task_id_counter, canceler, aborts, spurious>>

(* Mutant: the wait for running tasks is forgotten.                        *)
MutScanEnds ==
  /\ canceler = "scan"
  /\ scan = {}
  /\ canceler' = "done"
  /\ UNCHANGED <<object, status, id, cancel_counter, task_id_counter,
                 cancelable_tasks, scan, aborts, spurious>>

(* The for loop is over: wait for a running task, or leave the while loop. *)
ScanEnds ==
  /\ canceler = "scan"
  /\ scan = {}
  /\ canceler' = IF Registered = {} THEN "done" ELSE "wait"
  /\ UNCHANGED <<object, status, id, cancel_counter, task_id_counter,
                 cancelable_tasks, scan, aborts, spurious>>

CancelerWakesUp ==
  /\ canceler = "wait"
  /\ spurious < MaxSpurious
  /\ spurious' = spurious + 1
  /\ canceler' = "relock"
  /\ UNCHANGED <<object, status, id, cancel_counter, task_id_counter,
                 cancelable_tasks, scan, aborts>>

CancelerRelocks == canceler = "relock" /\ WhileNotEmpty
-----------------------------------------------------------------------------
(* The steps a thread that owns a task takes.                              *)
Owner(t) ==
  \/ RunStarts(t)
  \/ RunSkips(t)
  \/ RunEnds(t)
  \/ DeleteUnrun(t)
  \/ DestructorTryRun(t)
  \/ DestructorIsRunning(t)
  \/ RemoveFinishedTask(t)

Canceler == CancelAndWait \/ CancelNext \/ ScanEnds \/ CancelerWakesUp \/ CancelerRelocks

Next ==
  \/ \E t \in Tasks : Register(t) \/ Owner(t)
  \/ \E i \in Ids : TryAbort(i)
  \/ Canceler

(* Threads that can take a step take one in the end: RunInternal returns   *)
(* (for a stubborn task, once it was asked to), destructors finish, and    *)
(* the isolate's thread goes on with CancelAndWait.  Nothing is assumed of *)
(* when, or if, the platform starts a queued task.                         *)
Fairness ==
  /\ \A t \in Tasks :
       /\ WF_vars(RunEnds(t))
       /\ WF_vars(DestructorTryRun(t))
       /\ WF_vars(DestructorIsRunning(t))
       /\ WF_vars(RemoveFinishedTask(t))
  /\ WF_vars(CancelNext)
  /\ WF_vars(ScanEnds)
  /\ WF_vars(CancelerRelocks)

Spec == Init /\ [][Next]_vars
FairSpec == Spec /\ Fairness
-----------------------------------------------------------------------------
(* Every variable stays in its domain; in particular ids wrap around.      *)
TypeOK ==
  /\ object \in [Tasks -> Progress]
  /\ status \in [Tasks -> Status]
  /\ id \in [Tasks -> Ids]
  /\ cancel_counter \in [Tasks -> Nat]
  /\ task_id_counter \in Ids
  /\ cancelable_tasks \in [Ids -> Tasks \cup {NoTask}]
  /\ canceler \in CancelerPc
  /\ scan \subseteq Ids
  /\ aborts \in Nat
  /\ spurious \in Nat

(* An entry of the map points to an object that still exists, under the id *)
(* the object was given, and that was not canceled: TryAbort and           *)
(* CancelAndWait never call Cancel through a dangling pointer, although    *)
(* the owner deletes tasks without telling the manager first.              *)
NoDanglingEntry ==
  \A i \in Registered :
    LET t == cancelable_tasks[i]
    IN  Live(t) /\ id[t] = i /\ status[t] # "kCanceled"

(* A task that was not canceled stays in the map, under its id, until its  *)
(* destructor removes it, even when the id counter has wrapped around: the *)
(* DCHECK_NE(0, removed) of RemoveFinishedTask, and what CancelAndWait     *)
(* needs to know whom to wait for.                                         *)
LiveTaskIsRegistered ==
  \A t \in Tasks :
    Live(t) /\ status[t] # "kCanceled" => cancelable_tasks[id[t]] = t

(* The map and the tasks agree in both directions.                         *)
MapMatchesTasks == NoDanglingEntry /\ LiveTaskIsRegistered

(* When CancelAndWait has returned, the objects still alive are canceled   *)
(* ones: none of them is running, will run, registers a task or calls the  *)
(* manager from its destructor, so that the manager can be destroyed.      *)
ManagerOutlivesTasks ==
  canceler = "done" =>
    \A t \in Tasks :
      Live(t) => /\ status[t] = "kCanceled"
                 /\ object[t] \notin {"running", "removing"}

(* CancelAndWait blocks only while some registered task has started: that  *)
(* task's destructor will notify it.  A task registered by a running task  *)
(* after the scan, or aborted meanwhile, never leaves it asleep with       *)
(* nobody to wake it up.                                                   *)
WaitsForARunningTask ==
  canceler = "wait" =>
    \E i \in Registered : status[cancelable_tasks[i]] = "kRunning"

(* CancelAndWait returns, even if running tasks end only after they see a  *)
(* cancel attempt, and even if they register new tasks.                    *)
CancelAndWaitReturns == canceler # "idle" ~> canceler = "done"
=============================================================================
