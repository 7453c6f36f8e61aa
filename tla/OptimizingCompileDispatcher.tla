-------------------- MODULE OptimizingCompileDispatcher ---------------------
(***************************************************************************)
(* Concurrent recompilation                                                *)
(* (src/src/compiler-dispatcher/optimizing-compile-dispatcher.{h,cc}): the *)
(* isolate's thread queues jobs, background tasks optimise them, and the   *)
(* isolate's thread installs the results when an interrupt tells it to.    *)
(* Flush, called by the garbage collector and the debugger, and Stop, at   *)
(* the end of the isolate, must leave nothing in flight.                   *)
(*                                                                         *)
(* Grain: one critical section, or one atomic access to mode_, per step.   *)
(***************************************************************************)
EXTENDS Integers, Sequences, FiniteSets

CONSTANTS
  Jobs,       \* the CompilationJobs that may be queued, each once
  Tasks,      \* the CompileTasks that may be created
  None,       \* NULL
  Capacity,   \* input_queue_capacity_
  MaxFlushes, \* bound: calls of Flush
  MaxSpurious \* bound: spurious wakeups of ref_count_zero_

ASSUME DispatcherAssumption ==
  /\ None \notin Jobs \cup Tasks
  /\ IsFiniteSet(Jobs)
  /\ IsFiniteSet(Tasks)
  /\ Capacity \in Nat \ {0}
  /\ MaxFlushes \in Nat /\ MaxSpurious \in Nat

VARIABLES
  input_queue,   \* [0 .. Capacity - 1 -> Jobs \cup {None}]
  input_queue_length,
  input_queue_shift,
  output_queue,  \* Seq(Jobs)
  output_mutex,  \* the task that holds output_queue_mutex_, or None
  mode,          \* mode_: "COMPILE" or "FLUSH"
  blocked_jobs,
  ref_count,
  install_code,  \* the INSTALL_CODE interrupt is pending
  task,          \* [Tasks -> TaskPc]: where each CompileTask is
  held,          \* [Tasks -> Jobs \cup {None}]: the job it works on
  main,          \* where the isolate's thread is
  stopping,      \* it is in Stop, not in Flush
  job,           \* [Jobs -> JobState]: what has become of each job
  flags,         \* block: FLAG_block_concurrent_recompilation; delay:
                 \* recompilation_delay_ # 0; set before the first job
  flushes, spurious \* counters for the bounds

inputVars == <<input_queue, input_queue_length, input_queue_shift>>
outputVars == <<output_queue, output_mutex, install_code>>
countVars == <<flags, flushes, spurious>>
vars == <<inputVars, outputVars, mode, blocked_jobs, ref_count, task, held,
          main, stopping, job, countVars>>

(* "posted": constructed, and given to the platform; "compile": NextInput  *)
(* returned a job; "request": the job is in the output queue, and          *)
(* RequestInstallCode is next, with the lock held; "unref": about to drop  *)
(* its reference; "done": over.                                            *)
TaskPc == {"none", "posted", "compile", "request", "unref", "done"}

(* "run": outside of the dispatcher; "post": in QueueForOptimization, the  *)
(* job queued and its task not yet created; "install": in                  *)
(* InstallOptimizedFunctions; "unblock": in Unblock, called by a test;     *)
(* "flush": in Flush or Stop, mode_ set, before or after waiting; "wait":  *)
(* asleep on ref_count_zero_; "drain": in FlushOutputQueue; "stopped":     *)
(* Stop returned and the dispatcher is deleted.                            *)
MainPc ==
  {"run", "post", "install", "unblock", "flush", "wait", "drain", "stopped"}

(* "restored", "dropped": disposed of, with the function's code restored   *)
(* or not; "aborted": its function was optimised meanwhile.                *)
JobState == {"new", "queued", "compiling", "output", "finalized", "aborted",
             "restored", "dropped"}

(* One of the objects of S, if any: which of them is new does not matter.  *)
AnyOf(S) == IF S = {} THEN {} ELSE {CHOOSE x \in S : TRUE}

TasksAt(pc) == {t \in Tasks : task[t] = pc}

(* Mutant: the shift is forgotten.                                         *)
MutInputQueueIndex(i) == i % Capacity

InputQueueIndex(i) == (i + input_queue_shift) % Capacity

Init ==
  /\ input_queue = [i \in 0 .. Capacity - 1 |-> None]
  /\ input_queue_length = 0
  /\ input_queue_shift = 0
  /\ output_queue = <<>>
  /\ output_mutex = None
  /\ mode = "COMPILE"
  /\ blocked_jobs = 0
  /\ ref_count = 0
  /\ install_code = FALSE
  /\ task = [t \in Tasks |-> "none"]
  /\ held = [t \in Tasks |-> None]
  /\ main = "run"
  /\ stopping = FALSE
  /\ job = [j \in Jobs |-> "new"]
  /\ flags \in [block : BOOLEAN, delay : BOOLEAN]
  /\ flushes = 0
  /\ spurious = 0
-----------------------------------------------------------------------------
(* new CompileTask, and CallOnBackgroundThread.                            *)
PostTask ==
  \E t \in AnyOf(TasksAt("none")) :
    /\ task' = [task EXCEPT ![t] = "posted"]
    /\ ref_count' = ref_count + 1

(* IsQueueAvailable, and the first half of QueueForOptimization, on the    *)
(* isolate's thread.                                                       *)
QueueForOptimization(j) ==
  /\ main = "run"
  /\ job[j] = "new"
  /\ input_queue_length < Capacity
  /\ input_queue' = [input_queue EXCEPT ![InputQueueIndex(input_queue_length)] = j]
  /\ input_queue_length' = input_queue_length + 1
  /\ job' = [job EXCEPT ![j] = "queued"]
  /\ main' = "post"
  /\ UNCHANGED <<input_queue_shift, outputVars, mode, blocked_jobs, ref_count,
                 task, held, stopping, countVars>>

(* Its second half, after input_queue_mutex_ is released.                  *)
PostForQueued ==
  /\ main = "post"
  /\ IF flags.block
     THEN blocked_jobs' = blocked_jobs + 1 /\ UNCHANGED <<task, ref_count>>
     ELSE PostTask /\ UNCHANGED blocked_jobs
  /\ main' = "run"
  /\ UNCHANGED <<inputVars, outputVars, mode, held, stopping, job, countVars>>

(* %UnblockConcurrentRecompilation calls Unblock.                          *)
CallUnblock ==
  /\ main = "run" /\ flags.block
  /\ main' = "unblock"
  /\ UNCHANGED <<inputVars, outputVars, mode, blocked_jobs, ref_count, task,
                 held, stopping, job, countVars>>

(* Mutant: one task is posted for all the blocked jobs.                    *)
MutUnblockOne ==
  /\ main \in {"unblock", "flush"}
  /\ blocked_jobs > 0
  /\ PostTask
  /\ blocked_jobs' = 0
  /\ UNCHANGED <<inputVars, outputVars, mode, held, main, stopping, job,
                 countVars>>

(* One iteration of the loop of Unblock.                                   *)
UnblockOne ==
  /\ main \in {"unblock", "flush"}
  /\ blocked_jobs > 0
  /\ PostTask
  /\ blocked_jobs' = blocked_jobs - 1
  /\ UNCHANGED <<inputVars, outputVars, mode, held, main, stopping, job,
                 countVars>>

UnblockReturns ==
  /\ main = "unblock" /\ blocked_jobs = 0
  /\ main' = "run"
  /\ UNCHANGED <<inputVars, outputVars, mode, blocked_jobs, ref_count, task,
                 held, stopping, job, countVars>>
-----------------------------------------------------------------------------
FirstInput == input_queue[InputQueueIndex(0)]

(* NextInput(true) in CompileTask::Run.  In FLUSH mode the job is given to *)
(* DisposeCompilationJob(job, true), which writes to the heap from the     *)
(* background thread; CompileNext does nothing when there is no job.       *)
NextInput(t) ==
  /\ task[t] = "posted"
  /\ IF input_queue_length = 0
     THEN /\ task' = [task EXCEPT ![t] = "unref"]
          /\ UNCHANGED <<inputVars, held, job>>
     ELSE /\ input_queue_shift' = InputQueueIndex(1)
          /\ input_queue_length' = input_queue_length - 1
          /\ UNCHANGED input_queue
          /\ IF mode = "FLUSH"
             THEN /\ job' = [job EXCEPT ![FirstInput] = "restored"]
                  /\ task' = [task EXCEPT ![t] = "unref"]
                  /\ UNCHANGED held
             ELSE /\ job' = [job EXCEPT ![FirstInput] = "compiling"]
                  /\ task' = [task EXCEPT ![t] = "compile"]
                  /\ held' = [held EXCEPT ![t] = FirstInput]
  /\ UNCHANGED <<outputVars, mode, blocked_jobs, ref_count, main, stopping,
                 countVars>>

(* Mutant: the lock is released before the interrupt is requested.         *)
MutPushOutput(t) ==
  /\ task[t] = "compile"
  /\ output_mutex = None
  /\ output_queue' = Append(output_queue, held[t])
  /\ job' = [job EXCEPT ![held[t]] = "output"]
  /\ held' = [held EXCEPT ![t] = None]
  /\ task' = [task EXCEPT ![t] = "request"]
  /\ UNCHANGED <<output_mutex, inputVars, install_code, mode, blocked_jobs,
                 ref_count, main, stopping, countVars>>

(* CompileNext after OptimizeGraph: the job goes to the output queue ...   *)
PushOutput(t) ==
  /\ task[t] = "compile"
  /\ output_mutex = None
  /\ output_mutex' = t
  /\ output_queue' = Append(output_queue, held[t])
  /\ job' = [job EXCEPT ![held[t]] = "output"]
  /\ held' = [held EXCEPT ![t] = None]
  /\ task' = [task EXCEPT ![t] = "request"]
  /\ UNCHANGED <<inputVars, install_code, mode, blocked_jobs, ref_count, main,
                 stopping, countVars>>

(* Mutant: no interrupt is requested.                                      *)
MutRequestInstallCode(t) ==
  /\ task[t] = "request"
  /\ output_mutex' = None
  /\ task' = [task EXCEPT ![t] = "unref"]
  /\ UNCHANGED <<install_code, inputVars, output_queue, mode, blocked_jobs,
                 ref_count, held, main, stopping, job, countVars>>

(* ... and RequestInstallCode is called with output_queue_mutex_ held.     *)
RequestInstallCode(t) ==
  /\ task[t] = "request"
  /\ install_code' = TRUE
  /\ output_mutex' = None
  /\ task' = [task EXCEPT ![t] = "unref"]
  /\ UNCHANGED <<inputVars, output_queue, mode, blocked_jobs, ref_count, held,
                 main, stopping, job, countVars>>

(* Mutant: the last task does not notify.                                  *)
MutUnref(t) ==
  /\ task[t] = "unref"
  /\ ref_count' = ref_count - 1
  /\ task' = [task EXCEPT ![t] = "done"]
  /\ UNCHANGED <<main, inputVars, outputVars, mode, blocked_jobs, held,
                 stopping, job, countVars>>

(* The end of CompileTask::Run.                                            *)
Unref(t) ==
  /\ task[t] = "unref"
  /\ ref_count' = ref_count - 1
  /\ main' = IF ref_count = 1 /\ main = "wait" THEN "flush" ELSE main
  /\ task' = [task EXCEPT ![t] = "done"]
  /\ UNCHANGED <<inputVars, outputVars, mode, blocked_jobs, held, stopping, job,
                 countVars>>
-----------------------------------------------------------------------------
(* HandleInterrupts: CheckAndClearInterrupt(INSTALL_CODE) and the call of  *)
(* InstallOptimizedFunctions.                                              *)
HandleInstallCode ==
  /\ main = "run" /\ install_code
  /\ install_code' = FALSE
  /\ main' = "install"
  /\ UNCHANGED <<inputVars, output_queue, output_mutex, mode, blocked_jobs,
                 ref_count, task, held, stopping, job, countVars>>

(* InstallOptimizedFunctions called by the runtime.                        *)
CallInstall ==
  /\ main = "run"
  /\ main' = "install"
  /\ UNCHANGED <<inputVars, outputVars, mode, blocked_jobs, ref_count, task,
                 held, stopping, job, countVars>>

(* Take a job out of the output queue; its fate is one of fates.           *)
PopOutput(fates) ==
  /\ output_mutex = None
  /\ output_queue # <<>>
  /\ output_queue' = Tail(output_queue)
  /\ \E fate \in fates : job' = [job EXCEPT ![Head(output_queue)] = fate]
  /\ UNCHANGED <<inputVars, output_mutex, install_code, mode, blocked_jobs,
                 ref_count, task, held, main, stopping, countVars>>

(* One iteration of InstallOptimizedFunctions: the job is finalised, or    *)
(* disposed of because its function has been optimised meanwhile.          *)
InstallOne == main = "install" /\ PopOutput({"finalized", "aborted"})

(* One iteration of FlushOutputQueue.                                      *)
DrainOne ==
  main = "drain" /\ PopOutput(IF stopping THEN {"dropped"} ELSE {"restored"})

OutputEmpty ==
  /\ main \in {"install", "drain"}
  /\ output_mutex = None
  /\ output_queue = <<>>
  /\ main' = IF stopping THEN "stopped" ELSE "run"
  /\ UNCHANGED <<inputVars, outputVars, mode, blocked_jobs, ref_count, task,
                 held, stopping, job, countVars>>
-----------------------------------------------------------------------------
SetFlushMode ==
  /\ main = "run"
  /\ mode' = "FLUSH"
  /\ main' = "flush"
  /\ UNCHANGED <<inputVars, outputVars, blocked_jobs, ref_count, task, held,
                 job, flags, spurious>>

Flush ==
  /\ SetFlushMode
  /\ flushes < MaxFlushes
  /\ flushes' = flushes + 1
  /\ UNCHANGED stopping

Stop == SetFlushMode /\ stopping' = TRUE /\ UNCHANGED flushes

(* The test of the loop on ref_count_, after Unblock: sleep ...            *)
WaitForTasks ==
  /\ main = "flush" /\ blocked_jobs = 0
  /\ ref_count > 0
  /\ main' = "wait"
  /\ UNCHANGED <<inputVars, outputVars, mode, blocked_jobs, ref_count, task,
                 held, stopping, job, countVars>>

GoOn ==
  /\ main' = IF stopping /\ flags.delay THEN "install" ELSE "drain"
  /\ UNCHANGED <<inputVars, outputVars, blocked_jobs, ref_count, task, held,
                 stopping, job, countVars>>

(* Mutant: the tasks are not waited for.                                   *)
MutNoWait ==
  main = "flush" /\ blocked_jobs = 0 /\ mode' = "COMPILE" /\ GoOn

(* ... or go on: to FlushOutputQueue, or in Stop with a recompilation      *)
(* delay to InstallOptimizedFunctions.  The loop before it that compiles   *)
(* what is left in the input queue has nothing to do (StopFindsNoInput).   *)
TasksAreOver ==
  /\ main = "flush" /\ blocked_jobs = 0
  /\ ref_count = 0
  /\ mode' = "COMPILE"
  /\ GoOn

SpuriousWakeup ==
  /\ main = "wait"
  /\ spurious < MaxSpurious
  /\ spurious' = spurious + 1
  /\ main' = "flush"
  /\ UNCHANGED <<inputVars, outputVars, mode, blocked_jobs, ref_count, task,
                 held, stopping, job, flags, flushes>>
-----------------------------------------------------------------------------
TaskStep(t) ==
  \/ NextInput(t)
  \/ PushOutput(t)
  \/ RequestInstallCode(t)
  \/ Unref(t)

(* What the isolate's thread does once it is inside the dispatcher.        *)
MainStep ==
  \/ PostForQueued
  \/ UnblockOne
  \/ UnblockReturns
  \/ InstallOne
  \/ DrainOne
  \/ OutputEmpty
  \/ WaitForTasks
  \/ TasksAreOver

Next ==
  \/ \E j \in AnyOf({j \in Jobs : job[j] = "new"}) : QueueForOptimization(j)
  \/ \E t \in Tasks : TaskStep(t)
  \/ MainStep
  \/ CallUnblock
  \/ HandleInstallCode
  \/ CallInstall
  \/ Flush
  \/ Stop
  \/ SpuriousWakeup

Spec == Init /\ [][Next]_vars

(* The platform runs its tasks, the isolate's thread does not stay inside  *)
(* the dispatcher, and a pending interrupt is handled sooner or later.     *)
FairSpec ==
  /\ Spec
  /\ \A t \in Tasks : WF_vars(TaskStep(t))
  /\ WF_vars(MainStep)
  /\ SF_vars(HandleInstallCode)
-----------------------------------------------------------------------------
(* The state of the dispatcher is well typed.                              *)
TypeOK ==
  /\ input_queue \in [0 .. Capacity - 1 -> Jobs \cup {None}]
  /\ input_queue_length \in 0 .. Capacity
  /\ input_queue_shift \in 0 .. Capacity - 1
  /\ output_queue \in Seq(Jobs)
  /\ output_mutex \in Tasks \cup {None}
  /\ mode \in {"COMPILE", "FLUSH"}
  /\ blocked_jobs \in Nat /\ ref_count \in Nat
  /\ install_code \in BOOLEAN
  /\ task \in [Tasks -> TaskPc]
  /\ held \in [Tasks -> Jobs \cup {None}]
  /\ main \in MainPc
  /\ stopping \in BOOLEAN
  /\ job \in [Jobs -> JobState]
  /\ flags \in [block : BOOLEAN, delay : BOOLEAN]
  /\ flushes \in Nat /\ spurious \in Nat

JobsIn(state) == {j \in Jobs : job[j] = state}

(* The circular buffer holds exactly the jobs that have been queued and    *)
(* not taken, each once: InputQueueIndex never makes QueueForOptimization  *)
(* overwrite a job that waits, nor NextInput return one twice.             *)
InputQueueIsExact ==
  LET waiting == 0 .. input_queue_length - 1
  IN  /\ {input_queue[InputQueueIndex(i)] : i \in waiting} = JobsIn("queued")
      /\ Cardinality(JobsIn("queued")) = input_queue_length

(* Every job in the input queue has a task of its own that will take it,   *)
(* or is counted in blocked_jobs_, or is about to be given one: neither    *)
(* Unblock nor a flush may lose the correspondence, and no task finds the  *)
(* queue empty.                                                            *)
EveryInputHasATask ==
  input_queue_length = Cardinality(TasksAt("posted")) + blocked_jobs
                         + (IF main = "post" THEN 1 ELSE 0)

(* ref_count_ counts the tasks that may still touch the dispatcher.        *)
RefCountIsExact ==
  ref_count = Cardinality({t \in Tasks : task[t] \notin {"none", "done"}})

(* Past the wait of Flush and of Stop there is no input and no task: the   *)
(* loop of Stop that compiles what is left has nothing to compile, and the *)
(* DCHECKs of the destructor hold.                                         *)
StopFindsNoInput ==
  main \in {"drain", "stopped"} \/ (main = "install" /\ stopping)
    => /\ input_queue_length = 0
       /\ ref_count = 0
       /\ \A t \in Tasks : task[t] \in {"none", "done"}

(* A job in the input queue always has someone who will take it, and the   *)
(* queue is empty when nobody is left.                                     *)
InputIsServed == EveryInputHasATask /\ StopFindsNoInput

(* A finished job is never left in the output queue without an interrupt   *)
(* that will make the isolate's thread come for it: the push and           *)
(* RequestInstallCode are under one lock, and the interrupt is cleared     *)
(* before the queue is emptied.                                            *)
NoJobStranded ==
  output_queue # <<>> =>
    install_code \/ output_mutex # None \/ main \in {"install", "drain"}

(* The last loop of Flush, and of Stop with a recompilation delay or not.  *)
EmptiesOutput == main = "drain" \/ (main = "install" /\ stopping)

(* When Flush or Stop returns, no job is waiting, compiling or compiled:   *)
(* the collector and the debugger go on with no optimised code on its way. *)
FlushLeavesNothing ==
  [][EmptiesOutput /\ main' # main =>
       JobsIn("queued") \cup JobsIn("compiling") \cup JobsIn("output") = {}]_vars

(* Flush and Stop return: the notification of the last task is not missed. *)
FlushReturns == main \in {"flush", "wait"} ~> main \in {"run", "stopped"}

(* A queued job is finalised or disposed of in the end, once no job is     *)
(* kept blocked for a test: even when jobs that are queued behind it are   *)
(* blocked again.                                                          *)
QueuedJobsEnd ==
  \A j \in Jobs : job[j] = "queued" /\ blocked_jobs = 0 /\ main # "post" ~>
    job[j] \in {"finalized", "aborted", "restored", "dropped"}
=============================================================================
