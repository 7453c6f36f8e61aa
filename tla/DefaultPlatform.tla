-------------------------- MODULE DefaultPlatform ---------------------------
(***************************************************************************)
(* The platform of d8 and of embedders without one of their own            *)
(* (src/src/libplatform/default-platform.cc): background tasks on the      *)
(* worker pool of TaskQueue, and for each isolate a queue of foreground    *)
(* tasks and one of delayed tasks that the isolate's thread empties with   *)
(* PumpMessageLoop.                                                        *)
(*                                                                         *)
(* lock_ makes each call one step, except the destructor, which holds it   *)
(* while it joins the workers.  A task is its address: a delayed queue     *)
(* orders equal deadlines by address.                                      *)
(***************************************************************************)
EXTENDS TaskQueue, Functions

CONSTANTS
  Posters,    \* background tasks that may post foreground tasks
  Isolates,
  Delays,     \* delays that callers ask for
  MaxTime     \* bound: the clock stops here

ASSUME PlatformAssumption ==
  /\ Tasks \subseteq Nat    \* addresses
  /\ Workers # {}           \* thread_pool_size_ is at least 1
  /\ Posters \subseteq Tasks
  /\ Delays \subseteq Nat
  /\ MaxTime \in Nat

VARIABLES
  main_thread_queue,         \* [Isolates -> Seq(Tasks)]
  main_thread_delayed_queue, \* [Isolates -> sets of <<deadline, task>>]
  now,                       \* MonotonicallyIncreasingTime()
  foreground,                \* [Isolates -> Tasks \cup {NoTask}]: running in PumpMessageLoop
  blocked,                   \* workers whose task waits for lock_ in CallOnForegroundThread
  tracing_controller,        \* tracing_controller_: "null", "set" or "deleted"
  platform,                  \* "alive", "joining" (in the destructor) or "gone"
  scheduled,                 \* [Isolates -> Seq of calls], in the order they were made
  executed                   \* [Isolates -> Seq(Tasks)]: foreground tasks, as they start

foregroundVars == <<main_thread_queue, main_thread_delayed_queue, now, foreground,
                    blocked, scheduled, executed>>
platformVars == <<vars, foregroundVars, tracing_controller, platform>>

PlatformInit ==
  /\ Init
  /\ main_thread_queue = [i \in Isolates |-> <<>>]
  /\ main_thread_delayed_queue = [i \in Isolates |-> {}]
  /\ now = 0
  /\ foreground = [i \in Isolates |-> NoTask]
  /\ blocked = {}
  /\ tracing_controller = "null"
  /\ platform = "alive"
  /\ scheduled = [i \in Isolates |-> <<>>]
  /\ executed = [i \in Isolates |-> <<>>]

LockFree == platform = "alive"

(* A call that schedules a foreground task, and when the task is due.      *)
Call(delayed, due, t) == [delayed |-> delayed, due |-> due, task |-> t]

ForegroundTasks ==
  UNION {{scheduled[i][k].task : k \in DOMAIN scheduled[i]} : i \in Isolates}

Fresh(t) == t \notin posted \cup ForegroundTasks
-----------------------------------------------------------------------------
(* EnsureInitialized creates the workers, once.                            *)
EnsureInitialized ==
  /\ LockFree
  /\ StartWorkers
  /\ UNCHANGED <<foregroundVars, tracing_controller, platform>>

(* CallOnBackgroundThread, once EnsureInitialized has returned: what other *)
(* threads do between the two calls they may as well do before the first,  *)
(* since the destructor starts only when no caller is inside the platform. *)
CallOnBackgroundThread(t) ==
  /\ LockFree
  /\ Fresh(t)
  /\ \A w \in Workers : worker[w] # "none"
  /\ AppendTask(t)
  /\ UNCHANGED <<foregroundVars, tracing_controller, platform>>

PushForeground(i, t) ==
  /\ Fresh(t)
  /\ main_thread_queue' = [main_thread_queue EXCEPT ![i] = Append(@, t)]
  /\ scheduled' = [scheduled EXCEPT ![i] = Append(@, Call(FALSE, now, t))]

(* CallOnForegroundThread by an isolate's or an embedder's thread.         *)
CallOnForegroundThread(i, t) ==
  /\ LockFree
  /\ PushForeground(i, t)
  /\ UNCHANGED <<vars, main_thread_delayed_queue, now, foreground, blocked,
                 executed, tracing_controller, platform>>

(* CallOnForegroundThread by the task of a worker, in two steps: the call, *)
(* and the critical section once lock_ is free.                            *)
PosterCalls(w) ==
  /\ worker[w] = "run" /\ current[w] \in Posters
  /\ w \notin blocked
  /\ blocked' = blocked \cup {w}
  /\ UNCHANGED <<vars, main_thread_queue, main_thread_delayed_queue, now,
                 foreground, scheduled, executed, tracing_controller, platform>>

PosterPushes(w, i, t) ==
  /\ w \in blocked
  /\ LockFree
  /\ PushForeground(i, t)
  /\ blocked' = blocked \ {w}
  /\ UNCHANGED <<vars, main_thread_delayed_queue, now, foreground, executed,
                 tracing_controller, platform>>

CallDelayedOnForegroundThread(i, t, delay) ==
  /\ LockFree
  /\ Fresh(t)
  /\ main_thread_delayed_queue' =
       [main_thread_delayed_queue EXCEPT ![i] = @ \cup {<<now + delay, t>>}]
  /\ scheduled' = [scheduled EXCEPT ![i] = Append(@, Call(TRUE, now + delay, t))]
  /\ UNCHANGED <<vars, main_thread_queue, now, foreground, blocked,
                 executed, tracing_controller, platform>>

(* std::greater on (deadline, task): the order in which top() returns      *)
(* delayed entries.                                                        *)
Before(a, b) == a[1] < b[1] \/ (a[1] = b[1] /\ a[2] < b[2])

(* The entries PopTaskInMainThreadDelayedQueue returns one by one, and the *)
(* order it returns them in.                                               *)
Expired(i) == {e \in main_thread_delayed_queue[i] : e[1] <= now}
Popped(i) ==
  {s \in [1 .. Cardinality(Expired(i)) -> Expired(i)] :
     /\ Expired(i) \subseteq Range(s)
     /\ \A j, k \in DOMAIN s : j < k => Before(s[j], s[k])}

(* Mutant: one expired task is moved, and the others are dropped.          *)
MutFilled(i, moved) ==
  IF moved = <<>> THEN main_thread_queue[i]
  ELSE Append(main_thread_queue[i], moved[1][2])

(* The main queue after the loop of PumpMessageLoop that moves them.       *)
Filled(i, moved) ==
  main_thread_queue[i] \o [k \in DOMAIN moved |-> moved[k][2]]

(* Mutant: the newest task is taken.                                       *)
MutPumpMessageLoop(i) == \E moved \in Popped(i) :
  LET filled == Filled(i, moved)
  IN  /\ LockFree
      /\ foreground[i] = NoTask
      /\ filled # <<>>
      /\ main_thread_delayed_queue' =
           [main_thread_delayed_queue EXCEPT ![i] = @ \ Expired(i)]
      /\ main_thread_queue' = [main_thread_queue EXCEPT ![i] = SubSeq(filled, 1, Len(filled) - 1)]
      /\ foreground' = [foreground EXCEPT ![i] = filled[Len(filled)]]
      /\ executed' = [executed EXCEPT ![i] = Append(@, filled[Len(filled)])]
      /\ UNCHANGED <<vars, now, blocked, scheduled, tracing_controller, platform>>

(* PumpMessageLoop(i) up to task->Run(); with nothing to do it returns     *)
(* false and has changed nothing.                                          *)
PumpMessageLoop(i) == \E moved \in Popped(i) :
  LET filled == Filled(i, moved)
  IN  /\ LockFree
      /\ foreground[i] = NoTask
      /\ filled # <<>>
      /\ main_thread_delayed_queue' =
           [main_thread_delayed_queue EXCEPT ![i] = @ \ Expired(i)]
      /\ main_thread_queue' = [main_thread_queue EXCEPT ![i] = Tail(filled)]
      /\ foreground' = [foreground EXCEPT ![i] = Head(filled)]
      /\ executed' = [executed EXCEPT ![i] = Append(@, Head(filled))]
      /\ UNCHANGED <<vars, now, blocked, scheduled, tracing_controller, platform>>

(* task->Run() returns, the task is deleted, PumpMessageLoop returns true. *)
ForegroundTaskEnds(i) ==
  /\ foreground[i] # NoTask
  /\ foreground' = [foreground EXCEPT ![i] = NoTask]
  /\ UNCHANGED <<vars, main_thread_queue, main_thread_delayed_queue, now,
                 blocked, scheduled, executed, tracing_controller, platform>>

(* A step of a worker of the pool; a task that waits for lock_ cannot end. *)
WorkerStep(w) ==
  /\ w \notin blocked
  /\ Step(w)
  /\ UNCHANGED <<foregroundVars, tracing_controller, platform>>

SetTracingController ==
  /\ platform = "alive"
  /\ tracing_controller = "null"
  /\ tracing_controller' = "set"
  /\ UNCHANGED <<vars, foregroundVars, platform>>

(* Mutant: the queue is not terminated.                                    *)
MutDestructorStarts ==
  /\ platform = "alive"
  /\ \A i \in Isolates : foreground[i] = NoTask
  /\ platform' = "joining"
  /\ UNCHANGED <<vars, foregroundVars, tracing_controller>>

(* ~DefaultPlatform up to the joins, which it does with lock_ held.  The   *)
(* embedder calls it when no isolate's thread is in the platform.          *)
DestructorStarts ==
  /\ platform = "alive"
  /\ \A i \in Isolates : foreground[i] = NoTask
  /\ Terminate
  /\ platform' = "joining"
  /\ UNCHANGED <<foregroundVars, tracing_controller>>

(* Mutant: the threads are not joined.                                     *)
MutDestructorEnds ==
  /\ platform = "joining"
  /\ main_thread_queue' = [i \in Isolates |-> <<>>]
  /\ main_thread_delayed_queue' = [i \in Isolates |-> {}]
  /\ tracing_controller' = IF tracing_controller = "set" THEN "deleted"
                           ELSE tracing_controller
  /\ platform' = "gone"
  /\ UNCHANGED <<vars, now, foreground, blocked, scheduled, executed>>

(* The rest of it: the workers it created have ended, the foreground tasks *)
(* left are deleted unrun, and the tracing controller is stopped and       *)
(* deleted.                                                                *)
DestructorEnds ==
  /\ platform = "joining"
  /\ \A w \in Workers : worker[w] \in {"none", "exited"}
  /\ main_thread_queue' = [i \in Isolates |-> <<>>]
  /\ main_thread_delayed_queue' = [i \in Isolates |-> {}]
  /\ tracing_controller' = IF tracing_controller = "set" THEN "deleted"
                           ELSE tracing_controller
  /\ platform' = "gone"
  /\ UNCHANGED <<vars, now, foreground, blocked, scheduled, executed>>

Tick ==
  /\ platform = "alive"
  /\ now < MaxTime
  /\ now' = now + 1
  /\ UNCHANGED <<vars, main_thread_queue, main_thread_delayed_queue,
                 foreground, blocked, scheduled, executed, tracing_controller,
                 platform>>
-----------------------------------------------------------------------------
PlatformNext ==
  \/ EnsureInitialized
  \/ \E t \in Tasks : CallOnBackgroundThread(t)
  \/ \E i \in Isolates, t \in Tasks : CallOnForegroundThread(i, t)
  \/ \E w \in Workers : PosterCalls(w)
  \/ \E w \in Workers, i \in Isolates, t \in Tasks : PosterPushes(w, i, t)
  \/ \E i \in Isolates, t \in Tasks, delay \in Delays :
       CallDelayedOnForegroundThread(i, t, delay)
  \/ \E i \in Isolates : PumpMessageLoop(i) \/ ForegroundTaskEnds(i)
  \/ \E w \in Workers : WorkerStep(w)
  \/ SetTracingController
  \/ DestructorStarts
  \/ DestructorEnds
  \/ Tick

PlatformSpec == PlatformInit /\ [][PlatformNext]_platformVars

(* Threads run, tasks end, and an isolate's thread keeps pumping.          *)
FairPlatformSpec ==
  /\ PlatformSpec
  /\ \A w \in Workers :
       /\ WF_platformVars(WorkerStep(w))
       /\ WF_platformVars(\E i \in Isolates, t \in Tasks : PosterPushes(w, i, t))
  /\ \A i \in Isolates :
       /\ WF_platformVars(PumpMessageLoop(i))
       /\ WF_platformVars(ForegroundTaskEnds(i))
  /\ WF_platformVars(DestructorEnds)
  /\ WF_platformVars(Tick)
-----------------------------------------------------------------------------
(* Task a of isolate i started before its task b, or b has not started.    *)
StartsBefore(i, a, b) ==
  \A k \in DOMAIN executed[i] :
    executed[i][k] = b => \E j \in 1 .. k - 1 : executed[i][j] = a

(* Of two tasks of an isolate whose calls satisfy P, the second never      *)
(* starts first.                                                           *)
InOrder(P(_, _)) ==
  \A i \in Isolates : \A j, k \in DOMAIN scheduled[i] :
    P(<<j, scheduled[i][j]>>, <<k, scheduled[i][k]>>)
      => StartsBefore(i, scheduled[i][j].task, scheduled[i][k].task)

(* The tasks of CallOnForegroundThread run in the order of the calls, and  *)
(* those of CallDelayedOnForegroundThread in the order of their deadlines, *)
(* whichever threads post them and whenever the isolate pumps.             *)
ForegroundOrder ==
  InOrder(LAMBDA a, b : \/ ~a[2].delayed /\ ~b[2].delayed /\ a[1] < b[1]
                        \/ a[2].delayed /\ b[2].delayed /\ a[2].due < b[2].due)

(* What v8-platform.h promises: tasks posted for the same isolate run in   *)
(* order of scheduling.  Read as weakly as possible: a task that was due   *)
(* before another one was even posted does not run after it.               *)
OrderOfScheduling ==
  InOrder(LAMBDA a, b : ~b[2].delayed /\ a[1] < b[1] /\ a[2].due < b[2].due)

(* The tracing controller that tasks write their events to is deleted only *)
(* when no worker can run a task any more, and by then all background      *)
(* tasks that were posted have been run.                                   *)
ControllerOutlivesTasks ==
  platform = "gone" =>
    /\ \A w \in Workers : worker[w] \in {"none", "exited"}
    /\ posted = finished

(* Foreground tasks run, unless the platform is destroyed first; a task    *)
(* that is due within the modelled time is not left in its queue.          *)
ForegroundTasksRun ==
  \A i \in Isolates, t \in Tasks :
    (\E k \in DOMAIN scheduled[i] :
        scheduled[i][k].task = t /\ scheduled[i][k].due <= MaxTime)
      ~> t \in Range(executed[i]) \/ platform # "alive"

(* The destructor of the platform returns, unless a background task is in  *)
(* a post of its own: that task waits for lock_, which the destructor      *)
(* holds while it joins the worker that runs the task.                     *)
DestructorReturns == platform = "joining" ~> platform = "gone" \/ blocked # {}
=============================================================================
