# V8's concurrency core in TLA+

V8 runs JavaScript on one thread per isolate. Around that thread are others: the
platform's workers, optimising compiler tasks, parallel collector tasks, sampling and
tracing threads, and other isolates that share array buffers with it. This project models
those parts, where the order of steps of several threads decides whether the code is
correct. It checks them with TLC on small instances and proves the most important
invariants with TLAPS for all instances.

Paths are relative to the directory above this one: the repository is `src/`, and V8's own
code is `src/src/`.

## 1. Inventory

The parts of the system in which state is shared or a protocol spans several steps. "M"
marks what is modelled, "m" what is modelled in part. Everything else is in section 8.

| Part | State it keeps | Operations | Hard behaviour | |
|---|---|---|---|---|
| Cancelable tasks, `cancelable-task.*` | `status_`, `id_`, `cancel_counter_` of each task; map id → task; id counter | `Register`, `RemoveFinishedTask`, `TryAbort`, `CancelAndWait`, `Run`, destructor | lock-free `status_` against the locked map; owners delete tasks at any time; ids wrap | M |
| Task queue and workers, `libplatform/task-queue.*`, `worker-thread.*` | FIFO, `terminated_`, semaphore | `Append`, `GetNext`, `Terminate`, the worker loop | signals and tasks drift apart; one signal for a whole pool | M |
| Default platform, `libplatform/default-platform.*` | foreground and delayed queues per isolate, the pool, the tracing controller | posts, `PumpMessageLoop`, destructor | clock against pump; the destructor joins with its lock held | M |
| Futexes, `futex-emulation.*` | wait list; `waiting_`, `interrupted_` of each node | `Wait`, `Wake`, `NotifyWake` | the mutex is released in the middle of `Wait`; two locks in two orders; timeouts; spurious wakeups | M |
| Concurrent recompilation, `compiler-dispatcher/optimizing-compile-dispatcher.*` | circular input queue, output queue, `mode_`, `ref_count_`, `blocked_jobs_` | `QueueForOptimization`, `Unblock`, `NextInput`, `CompileNext`, `InstallOptimizedFunctions`, `Flush`, `Stop` | a flush while jobs are in every stage; interrupt against queue | M |
| Memory reducer, `heap/memory-reducer.*` | automaton state, pending timers | `NotifyTimer`, `NotifyMarkCompact`, `NotifyPossibleGarbage`, `TearDown` | a collection nested in the timer handler; late timers | M |
| Parallel page jobs, `heap/page-parallel-job.h` | state per page, semaphore shared by successive jobs | `Run`, the tasks | abort against start; the platform may never run a task | M |
| Locked queue, `locked-queue*.h` | linked list, two locks | `Enqueue`, `Dequeue`, `Peek`, `IsEmpty`, destructor | nodes freed at one end while the other end is used | M |
| Unbound queue, `profiler/unbound-queue*.h` | linked list, divider | `Enqueue`, `Dequeue`, `Peek`, destructor | the producer frees what the consumer has left, without a lock | M |
| Sampling queue and profiler, `profiler/circular-queue*.h`, `cpu-profiler.*` | ring with markers; queues of code events and samples; last event numbers | signal handler, VM thread, processing loop, shutdown | each sample must meet the code map it was taken under | m |
| Stack guard, `execution.*` | interrupt flags, chain of postpone scopes, limits | `RequestInterrupt`, `ClearInterrupt`, push and pop of scopes, `HandleInterrupts` | requests inside nested scopes, and between the checks of a handler | M |
| Thread manager and `Locker`, `v8threads.*` | isolate lock, lazily archived thread, lists of `ThreadState`s | lock, archive, restore, free | a thread's state is archived later, by another thread | m |
| Trace buffer, `libplatform/tracing/trace-buffer.*` | ring of chunks, sequence numbers | `AddTraceEvent`, `GetEventByHandle`, `Flush` | handles after the ring wraps; events are filled in without the lock | M |
| Category registry, `libplatform/tracing/tracing-controller.*` | table of groups and flags | lookup, `StartTracing`, `StopTracing` | entries are added without a lock | m |
| Sweeper, `heap/mark-compact.*` | page lists, page mutexes, `num_sweeping_tasks_`, semaphore | `StartSweeping`, tasks, `ParallelSweepPage`, `EnsureCompleted`, late pages | background tasks, allocation and iteration want the same page | m |

How the parts interact: the isolate's thread posts tasks to the platform, which runs them on
the pool of `TaskQueue`. The tasks of page jobs and the reducer's timer are `CancelableTask`s;
compile tasks and sweeper tasks are plain ones, which their owners count. Compile tasks and
`RequestInterrupt` callers reach the isolate's thread through the stack guard's flags, and a
thread asleep in `Atomics.wait` through its futex node. The reducer's timer is a delayed
foreground task. Isolate teardown calls `OptimizingCompileDispatcher::Stop` and
`CancelableTaskManager::CancelAndWait`. A thread that enters the isolate through a `Locker`
takes over, with the rest of the isolate, the stack guard and what is requested of it. The
profiler's processor reads code events from a `LockedQueue` and samples from a ring that a
signal handler fills.

## 2. Modules

Each component module has its state in `VARIABLES`, named as in the source; one action per
critical section, atomic access or handler; `Spec`, and `FairSpec` with the fairness of
section 4. Operators called `Mut...` are variants of an operation with a plausible mistake
in it. They are not part of any specification; they serve to show that each property
notices a mistake of its kind. `PROJECT.json` maps every definition to its lines.

**CancelableTask.** `object` is where the owner of each task is (queued, running, in the
destructor and before which of its reads), `status` is `status_`, `cancelable_tasks` the
map. The manager's mutex is held over several steps only by the scan of `CancelAndWait`, so
every other critical section is one action guarded by `MutexFree`. The destructor is three
actions, because `TryRun` and `IsRunning` are separate reads of `status_` and
`RemoveFinishedTask` takes the mutex. Ids are numbers modulo `IdModulus`, the width of
`uint32_t`. `Stubborn` tasks end only after they have seen `CancelAttempts() > 0`, the
indication `cancel_counter_` is kept for.

**TaskQueue.** The queue, the semaphore and the workers' loops. Between the release of
`lock_` and `Wait` on the semaphore a worker is at `"wait"`, and others may take the signal
or the task it would have found.

**DefaultPlatform** composes `TaskQueue` (the same actions) with the
foreground queues. `CallOnBackgroundThread` is two actions, `EnsureInitialized` and then the
`Append`; what other threads do between the two they may as well do before the first, since
nobody destroys a platform that is being called. `scheduled` and `executed` record the calls
and the starts, for the order properties. A background task in `Posters` may call
`CallOnForegroundThread`; while the destructor holds `lock_` it is in `blocked`. A delayed
task is a pair of deadline and address, because the code's priority queue orders equal
deadlines by address.

**FutexEmulation.** `Wait` is cut where the code releases `mutex_`; each piece in between is
one action. `RequestInterrupt` and `NotifyWake` are two actions, since the first takes
`ExecutionAccess` and the second takes `mutex_` while still holding it. `HandleInterrupts`
looks at the flags one by one, each under `ExecutionAccess`. Condition variables may wake
spuriously. Backing stores and addresses are one set `Addrs`.

**OptimizingCompileDispatcher.** The circular buffer is modelled with its indices. The main
thread's calls (`QueueForOptimization`, `Unblock`, `Flush`, `Stop`, the install interrupt)
are sequences of steps of `main`; a `CompileTask` goes through posted, compile, request and
unref. `job` says what has become of each job. Both flags that change the protocol
(`block_concurrent_recompilation`, `concurrent_recompilation_delay`) are chosen at the
start.

**MemoryReducer** and **MemoryReducerAutomaton.** `Step` is one operator per event type.
Times are relative (time left, age), which keeps the state finite without a bound on the
clock. A timer is scheduled `Slack` later than the start it is for, as in `ScheduleTimer`,
and later still by the time (up to `MarkingTime`) that the handler was busy. The nested
collection in `NotifyTimer` is part of that action. `full` is whether a collection leaves
the heap full enough for its epilogue to start marking; `serializer_enabled` is chosen at
the start, and rules marking out (`CanBeActivated`). The automaton is the diagram in the
header's comment, as a specification of its own; `ImplementsAutomaton` is the refinement.

**PageParallelJob.** The main thread's loops and the tasks' walk over the pages, with every
number of pages, tasks and threads up to the bounds. A task's `status_` is folded into its
program counter; `CancelableTask` justifies this, since abort and start are one
compare-and-swap each. The module's names are `JobInit`, `JobNext` and `JobSpec`, since
`MCHeap` extends it together with `MemoryReducer`.

**FIFO**, **LinkedList**, **LockedQueue** and **UnboundQueue.** Two linked lists, with nodes
that are allocated, freed and reused, and the abstract queue that both implement: `Enqueue`
takes effect when the node is linked, `Dequeue` when `head_` (or the divider) moves, and
nothing does after the destructor has closed the queue. `LockedQueue` has two locks and any
number of producers and consumers; `UnboundQueue` has one of each and no lock, and its
producer frees the nodes that the divider has passed. `LinkedList` is the chain from a node,
which both read their contents from.

**SamplingCircularQueue** and **ProfilerEventsProcessor.** The ring is a module of operators
on its slots. The processor composes it with the queue of code events and the queue of the
VM thread's own samples: the VM thread numbers and queues code events, a signal handler
fills a slot of the ring between any two of its steps, and the processing loop, its choice
between the two kinds of samples and its shutdown run beside them. During a collection
several `Evacuators` number and queue events too, in the same two steps and without a lock
around them. `overtaken` records the pairs of events that were queued in the other order
than they were numbered. Each sample carries the number of the last code event when it was
taken, and the model records what the code map was when it was looked up.

**StackGuard** and **ThreadManager.** `StackGuard` has the operators on one thread's
`ThreadLocal`: requesting, clearing, pushing and popping scopes, setting limits. There,
`Pending` is all that is requested, active or intercepted. `ThreadManager` has the actions:
threads whose stacks of `frames` hold `Locker`s, `Unlocker`s and `PostponeInterruptsScope`s,
and which lock, archive (lazily or at once), restore and free. `HandleInterrupts` tests the
flags one after the other, in the code's order. `data` is the contents of each
`ThreadState`. Two variables are there for the properties only: `occupant`, whose state is
in the isolate, and `owed`, what has been requested of each thread and not yet handled or
withdrawn.

**TraceBuffer** and **TracingController.** A call of the buffer is one step under its mutex,
but the object it returns is filled in by the caller in a step of its own, by when its place
may have been taken again. Handles pack sequence number, chunk and index as the code does.
In the controller each load and each store of the category table is a step; `raced` notes
when two threads added entries at once.

**Sweeper.** The lists of pages to be swept and swept, one mutex per page, sweeper tasks,
and the collector's calls: starting to sweep, allocating, iterating over a page, adding late
pages, waiting for the new space and for the end. The pages of a cycle are listed in any
order; the code sorts them by live bytes, which are data here. The array buffer tracker is
the other user of a page's mutex. `skipped` are the pages that a task gave up because it did
not get the mutex.

**Instances.** Each `MC...` module fixes the constants of a component that need definitions.
`MCWaiting` (TaskQueue and FutexEmulation), `MCHeap` (MemoryReducer, PageParallelJob and
Sweeper), `MCQueues` (LockedQueue, UnboundQueue and the profiler) and `MCThreads`
(ThreadManager, TraceBuffer and TracingController) hold components that have nothing to do
with each other: the variable `which` is chosen at the start, a behaviour is one of that
component, and the others stay in their initial states. A state space is the sum of theirs,
not the product.

## 3. Runs

| Run | Instance | What it shows |
|---|---|---|
| `cancelable` | 3 tasks, 2 ids, 1 abort, 1 spurious wakeup, 1 stubborn task | the map agrees with the tasks although ids wrap onto ids in use; nothing runs or calls the manager after `CancelAndWait`; it sleeps only if somebody will notify it; it returns |
| `waiting` | pool: 3 workers, 4 tasks; futexes: 2 isolates, 1 address, wakes of 1 and 3, three budgets | no worker sleeps on work; posted tasks run; `Terminate` drains the queue and ends every worker. The wait list holds exactly the waiting threads; no wake, interrupt or store is slept over; waits that must end do; requesting and handling an interrupt do not deadlock |
| `platform` | 1 worker, 3 tasks, 1 isolate, delays 1 and 2, clock to 2 | order within immediate and within delayed tasks; due tasks run; the destructor leaves nothing running, and only a background task that is itself posting can hold it up |
| `dispatcher` | 3 jobs, 3 tasks, capacity 2, 1 flush, 1 spurious wakeup, all flags | the input queue is exact; each input has a task; no result is stranded; `Flush` and `Stop` return and leave nothing, whether they drop or install what is compiled; queued jobs end |
| `heap` | reducer: 3 collections, delays 3, 1 and 7, slack 1, up to 1 for marking; job: up to 4 pages, 3 tasks, 3 threads; sweeper: 2 pages, 2 spaces, 2 cycles | the reducer implements its automaton, always has its next event coming, no later than slack and marking explain, rests under an idle mutator once the heap stays below its limit, and is forced by the watchdog under a busy one; a page is processed once, `Run` returns even without threads and leaves no task and a semaphore at 0; a page is swept once, `EnsureCompleted` returns and leaves nothing that was not skipped |
| `queues` | 2 producers, 2 consumers, 4 nodes, 2 values; ring of 2, 2 code events, 2 evacuating tasks, 1 tick, 3 samples | both lists are linearisable FIFO queues; no freed node is used and none leaks; each sample that is processed meets the code map it was taken under, up to events that overtook each other during a parallel evacuation |
| `threads` | 2 threads, 3 requests, 2 masks, 4 frames in all; 2 tracers, 2 chunks of 2, 7 events; 3 category groups in 6 slots, 1 start | an interrupt is neither lost nor handed to another thread; no scope lets through what it masks; each thread's state is its own. A handle finds its own event or nothing; `Flush` writes the session in order; a thread that searches the categories meets no empty slot |
| `platform_order` | 2 tasks | violation, see section 6 |
| `futex_wake_result` | 2 waits and 2 wakes | violation, see section 6 |
| `futex_early_interrupt` | 1 wait and 1 interrupt | violation, see section 6 |
| `sweeper_skips` | the sweeper of `heap` | violation, see section 6 |
| `profiler_ticks` | 1 code event, 1 sample of the VM thread | violation, see section 6 |

Why the bounds are enough for the cases at stake:

- Two ids for three tasks make the counter wrap onto a live id.
- Three workers let a signal be consumed by a worker that has no use for it while two others
  sleep.
- Two isolates are the least with which wakes are shared out. One address is used: nodes at
  other addresses are only skipped by `Wake`. The budgets are alternatives: two waits with a
  wake, a store and an interrupt; one wait with a spurious wakeup as well; and one with two
  interrupts, the least number with which the lock orders of requester and waiter can meet.
  One budget with the maximum of each kind and two interrupts (1.6 million states) was checked
  once, passes as well, and takes too long to repeat with every change.
- Capacity 2 with three jobs wraps the circular buffer and fills it.
- Four pages over three tasks give starts that wrap around.
- Two sweeping cycles show what one leaves for the next. A page in each space lets a task
  leave one space for another while the collector waits for the first.
- Four nodes let a node be freed and reused while both ends of the list are active.
- A ring of two with three samples fills and wraps; two code events let a sample be taken
  before, between and after them, and two evacuating tasks let one overtake the other.
- A slack of 1 and marking of up to 1 make a timer come late by 0, 1 or 2, which is less and
  more than the short delay.
- Two threads are the least with which a state is archived on another's behalf. Four frames
  are a locker, an unlocker, a scope and one more inside. Three requests reach an outer
  scope, an inner scope and the thread that is away.
- Seven events in two chunks of two wrap the ring and, across a flush, start it again.
  Of six slots four are taken by the built-in groups, so that three more groups, of which
  two fit, fill the table and one finds it exhausted.

All runs set `CHECK_DEADLOCK FALSE`, since the systems stop legitimately when their tasks,
calls and time are used up; that nobody waits forever is what the liveness properties say.
Symmetry is used in `queues` and `threads` only, which check no liveness.

## 4. Fairness

Every thread that can take a step takes one in the end (weak fairness per thread): the
operating system schedules threads. Tasks, callbacks and compilations end, since nothing in
these protocols bounds them otherwise. Beyond that, each module assumes only what its code
relies on:

- `CancelableTask` does not assume that the platform ever starts a queued task, and
  `PageParallelJob` does not either: `CancelAndWait` and `Run` return without it.
- `TaskQueue` has weak fairness of each worker's step, not of each semaphore wait: a sleeping
  worker may lose every race for a signal.
- `DefaultPlatform` assumes that the embedder keeps pumping and that time passes.
- `FutexEmulation` assumes nobody calls `Wake`.
- `OptimizingCompileDispatcher` has strong fairness of the install interrupt: stack checks
  come again and again, but the isolate's thread may be inside a call each time.
- `MemoryReducer` assumes that time passes, that due timers run, and that marking in progress
  is finished, which the heap's own steps and tasks do. What it promises has premises, which
  the properties state: `ComesToRest` that collections leave the heap below the limit at which
  the epilogue starts marking again, and both `ComesToRest` and `WatchdogForcesGC` that marking
  can be activated, which it cannot in an isolate made for a snapshot.
- `Sweeper` has weak fairness of the collector inside a call and of each task. `EnsureCompleted`
  waits for every task that was posted, so those have to run. No call need ever be made.

The queues, the profiler, the threads and tracing are checked for safety only. Their calls
do not wait, or wait only for a mutex of whose holders nothing more is known.

## 5. Proofs

The theorems hold for every value of the constants that satisfies the named assumptions;
those ask only for finiteness of sets that are counted, ids, delays and sizes that are numbers,
and `NULL` values that differ from real ones. Eight modules hold them. Each theorem about a
component rests on an inductive invariant of that component, which is stated before it.

**WaitingProofs**, on three threads that wait for others.

- *CancelableTask*: `TypeCorrect`, `MapIsExact`, `ManagerCanDie` and `NoLostWakeup`. The invariant
  adds three facts. `ProgressMatchesStatus`: what the owner is doing agrees with `status_` (a
  running task is kRunning, one that skips was canceled). `VisitedEntriesRun`: entries that the
  scan has passed, and which are still there, belong to tasks that had started, so that when the
  scan ends every entry is a running task. `DoneMeansEmpty`: after the return the map is empty,
  because only running tasks and the isolate's thread register new ones. Without
  `VisitedEntriesRun` one cannot exclude a sleep on a map that holds only waiting tasks.
- *FutexEmulation*: `WaitListExact` and `NoEventSleptOver`. With the types the two are inductive
  together: that a thread in `Wait` is in the list is what lets a wake of everybody reach it.
- *PageParallelJob*: `JobEnds` and `PagesProcessedOnce`. `MainTaskWalks`: the main thread's task
  starts at page 0, and no page it has passed is still available; hence every page has been taken
  when it ends, even if no other task ever ran. `PagesHaveOwners`: a page in processing has exactly
  one task that processes it. `SignalsAreCounted`: the tasks that have signalled or been aborted are
  as many as the signals in the semaphore and the iterations of the last loop together. When that
  loop ends, the number of such tasks is at least the number of tasks, so each of them is settled
  and no signal is left over. This is why a wait may take another task's signal without harm.

**PlatformProofs**, on the platform and its pool.

- *TaskQueue*: `TypeCorrect`, `PoolIsWorkConserving`, `PoolTerminates`. The invariant is the
  conjunction of the properties with "a worker in `Run` has a task". The work is in the
  cardinality of the set of workers about to look at the queue, when one worker moves.
- *DefaultPlatform*: `PlatformRunsPool` says that each behaviour of the platform is one of its
  pool, so that what is proved of the pool holds in it. `ControllerOutlives` adds where each posted
  task is (`TasksAreAccountedFor`) and that the destructor has joined a pool that was started.
  `ForegroundTasksAreOrdered` follows the line of an isolate, what it has started and then what is
  in its main queue: a step adds only to the end of the line, and a delayed task is added when
  every task with an earlier deadline is in line already (`ForegroundIsLined`).

**ServiceProofs**, on services that threads share.

- *TraceBuffer*: `HandlesAreSound`. Each handle is packed from the place its event was given, and
  as long as the chunk there has the same sequence number the place belongs to the event
  (`HandlesAreHeld`).
- *TracingController*: `RegistrySound`. A thread took its slot when all slots below had a name and
  stores the index when its own has one too (`NamesBelow`); as long as no additions have raced, one
  thread adds at a time, in the slot the index points to (`OneAdds`).
- *OptimizingCompileDispatcher*: `InputAlwaysServed`, `NoneStranded`, `InputQueueExact` and
  `FlushedForGood`. The first comes from the counting invariant: `ref_count_` is the number of live
  tasks, and the length of the input queue is the number of posted tasks plus blocked jobs (plus
  one job between its queueing and its task). `NoneStranded` has an invariant of its own about who
  holds the output lock. The last two come from `Placing`: each job is in one slot of the circular
  buffer, in one task's hands or in one place of the output queue, as its state says.

**SweeperSteps** and **HeapProofs**, on the heap.

- *Sweeper*: `PagesAreSweptOnce` and `SweepingEnds`. The invariant says who holds the mutex of a page
  and what the page's state is then (`MutexesAreHeld`); that a pending page is listed or on its way
  to a lock (`PendingIsFound`); that a list with pages in it has a thread still to come to it
  (`ListsAreVisited`); that the tasks that run and the signals that wait are as many as were posted
  (`TasksAreCounted`); and that no thread meets a page before it is added late
  (`LateAreUntouched`). The first module has the invariant and the steps of the threads that sweep,
  the second has the calls that start, wait and count.
- *MemoryReducer*: `TypeCorrect`, `NextEventPending`, and `Refinement`: the reducer with its timers,
  the heap's events and nested collections implements the automaton of its header. The invariant
  adds that kWait is entered only with collections left to start (`WaitHasBudget`), without which
  a nested collection could exceed the limit.

**ProfilerProofs.** `SamplesAreInOrder`, for any ring and any number of events, samples and
tasks that evacuate. The invariant follows an event from its number over the queue into the
code map: events that are applied are ahead of those that are queued, and these of those
that only have a number (`EventsAreOrdered`); each number taken belongs to exactly such an
event (`EventsAreNumbered`); and the sample the processor has found to be due is still the
one it records (`PeekedIsKept`), since the signal handler writes only to empty slots.

**ThreadManagerStructure** and **ThreadManagerProofs.** `InterruptsConserved`,
`ScopesPostpone` and `StatesApart`, for any number of threads, any requests and masks and
stacks of any depth, from `ThreadsAssumption` (constants that stand for limits and for
`NULL` are no threads). None of the three properties is inductive: whether a request
survives depends on where its thread's state is, and that on what the thread and others did
long before. The invariant says:

- `StacksAreShaped`: the locker that made a thread known to the isolate is at the bottom of
  its stack, and there is no other like it.
- `OwnersAgree`: who has the mutex, whose state is in the isolate and who is archived. A thread
  has a `ThreadState` exactly while it is known and not present; the isolate holds the state
  of the thread that is present or of the one that is lazily archived.
- `StatesAreDisjoint`: a `ThreadState` is free, in use by one thread, or reserved for the lazily
  archived one.
- `StatesAreCounted`: these three together are all that were ever allocated.
- `StatesBelong`: wherever a thread's state is, it is well guarded, its limit is one of that
  thread's own, its scopes are those open on the thread's stack, and what is pending in it
  is what is owed to the thread.

The first module has the definitions, what each operation of the stack guard does to one
state, and that each action keeps the first three conjuncts; the second shows that it keeps the
other two, and concludes. Popping a scope is the hard case of the stack guard. The code makes
active what the scope has intercepted, without asking the scopes around it; this is right because
a request goes to the outermost scope that masks it, so that no scope ever holds a flag that one
around it masks. `WellGuarded` states this, and is the generalisation of the `DCHECK` in
`PopPostponeInterruptsScope`.

Only model-checked: all liveness properties (the prover has no rules for fairness or `ENABLED`);
what recursively defined data amounts to, which is the contents and the nodes of the linked
lists (`QueuesImplementFIFO`, `QueueNodesAreManaged`); and what a flush of the trace buffer writes
(`SessionIsWritten`).

## 6. Where the code disagrees with its documentation

- **Order of foreground tasks** (`platform_order`). `src/include/v8-platform.h` says that tasks
  posted for the same isolate are executed in order of scheduling. `PumpMessageLoop` moves
  expired delayed tasks behind the immediate ones, so that a task that was due before another
  one was posted can run after it. Within each kind the order is kept (`ForegroundOrder`).
- **Result of `Wake`** (`futex_wake_result`). `src/src/futex-emulation.h` says that the result is
  the number of woken waiters. A thread that was woken stays in the list until it runs, and
  `Wake` does not look at `waiting_`: a second `Wake` counts it again, and spends on it a wakeup
  that a thread behind it was meant to get.
- **Interrupt before `Wait`** (`futex_early_interrupt`). Comments in `NotifyWake` and `Wait` say
  that an interrupt that comes before `Wait` has the mutex is remembered in `interrupted_`.
  `NotifyWake` sets it only if `waiting_` is true, so the thread sleeps with the interrupt
  pending. Interrupts that come later are not slept over (`NothingIsSleptOver`).
- **Skipped pages** (`sweeper_skips`). A comment in `src/src/heap/mark-compact.cc` says that
  sweeping has finished when evacuation candidates are chosen. A sweeper task that takes a
  page from its list while the array buffer tracker holds the page's mutex gives the page up.
  `EnsureCompleted` then returns with this page unswept and in no list. All other pages are
  done (`SweepingIsOver`).
- **Samples of the VM thread** (`profiler_ticks`). `src/src/profiler/cpu-profiler.cc` says that all
  ticks of a code event are processed before the next code event. `ProcessOneSample` looks at
  the VM thread's samples first and at the ring second. A sample queued in between is passed
  by the next code event, never matches again, and blocks those behind it. No sample is looked
  up in a later code map (`SamplesMeetTheirCodeMap`).

Behaviours that the models have and that no run singles out:

- The destructor of the platform holds `lock_` while it joins the workers, so it does not
  return if a background task is at that moment posting a task. `DestructorReturns` states that
  nothing else can hold it up.
- A request for an interrupt while no thread is inside the isolate goes to the blank state
  that the last one left behind, and is gone when a thread enters (`execution.cc:316`).
- Tasks that evacuate pages in parallel take the number of a code event and queue the event
  in two steps (`cpu-profiler.cc:60`), so that events may be queued, and applied to the code map, in
  another order than they are numbered. A sample may then be looked up in a map that lacks an
  event with a smaller number or has one with a larger number. `SamplesMeetTheirCodeMap` says that
  the map is off by no more than these.
- Two threads that add category groups at once may take the same slot and set the index
  back, although the comment at `tracing-controller.cc:133` calls the table append-only; and a
  group added while tracing starts or stops may keep the flag of the mode before.
  `RegistryIsSound` says what remains true when additions race, and what is true otherwise.
- `Flush` of the trace buffer only sets `is_empty_` (the comment at `trace-buffer.cc:64` says that
  it resets the buffer), so chunks of an earlier session are written again. What
  `SessionIsWritten` states is about the end of what is written.

## 7. Abstractions

- Mutexes, condition variables and semaphores are those of the operating system, with
  spurious wakeups. The code's sequentially consistent or acquire/release accesses are taken
  as atomic steps; weaker orders are not modelled.
- What a task computes, what a job compiles, what a page holds and what a sample or a trace
  event says is left out; only whether it succeeds is chosen, where the code looks at it.
- Of what is archived for a thread, the stack guard's state stands for the rest: all parts
  are copied together and in the same order.
- Paths that nothing reaches are left out: `terminate_on_restore` is set only by a method
  that has no caller, the event types of the profiler all have a case, and the tracing
  controller is given its buffer before any call.
- Sequence numbers of trace chunks come from a space that is not used up within the bound;
  with 2^32 of them a handle would have to be kept for as many chunks to meet its own again.
- Counts that only grow are bounded by named constants (`MaxAborts`, `MaxSpurious`,
  `MaxFlushes`, `MaxTime`, `MaxCycles`, `MaxEvents`, `MaxFrames`, `Budgets`). They are guards of calls
  from outside, never of a step that a protocol owes.

## 8. Not modelled

Concurrent parts that are left out, and why:

- *Unmapper*: two lists under one mutex. The states of pages that others wait for are in
  `Sweeper`.
- *Incremental marking, its job, the scavenge job and the idle time handler*: their states
  change on the isolate's thread only, driven by heuristics over sizes and speeds.
  `MemoryReducer` sees them as two events.
- *Array buffer tracker*: its use of a page's mutex is in `Sweeper`; its table is data under
  that mutex.
- *Compiler dispatcher job*: a straight line of phases, which only tests drive in this version.
- *Wasm compilation*: units handed out by an atomic counter and collected under a mutex, the
  pattern of `PageParallelJob` and `LockedQueue`.
- *`d8`'s workers*: a test driver of the API.
- *`CallOnce`*: one compare-and-swap at start-up.
- *The Windows `ConditionVariable`* and the other wrappers of the operating system's
  primitives, which are modelled by what they promise.

The parser, the compilers and their back ends, the interpreter, inline caches, builtins, the
object model, regular expressions, snapshots and number conversions are sequential
translations or language semantics, with data far beyond what TLC enumerates. The scavenger,
marking and compaction are graph algorithms over raw memory; only the scheduling of their
parallel phases is modelled. Logging and heap profiling are output. `PROJECT.json` lists each
of these parts with its reason.

## 9. Plan

Next theorems: mutual exclusion and ownership of nodes in `LockedQueue`, with an auxiliary
sequence of nodes in place of the recursive chain, and from it the refinement of `FIFO`;
`SessionIsWritten` of `TraceBuffer`; the lock order of `FutexEmulation`, as a safety property
behind `RequestReturns`.

Next modules: incremental marking, so that `MemoryReducer` is composed with it in place of
abstract events; the unmapper.
