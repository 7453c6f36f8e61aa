--------------------------- MODULE MemoryReducer ----------------------------
(***************************************************************************)
(* The memory reducer (src/src/heap/memory-reducer.{h,cc}), with the heap  *)
(* events that drive it (src/src/heap/heap.cc) and its timer tasks.  All   *)
(* of it runs on the isolate's thread; the order of the events is free.    *)
(*                                                                         *)
(* Times are relative to now, as in MemoryReducerAutomaton.                *)
(***************************************************************************)
EXTENDS Integers, Sequences

CONSTANTS
  MaxGCs, LongDelay, ShortDelay, WatchdogDelay, Never,
  Slack,       \* kSlackMs of ScheduleTimer
  MarkingTime  \* bound: how long NotifyTimer may be busy with marking

ASSUME ReducerAssumption ==
  /\ MaxGCs \in Nat \ {0, 1}
  /\ LongDelay \in Nat /\ ShortDelay \in 1 .. LongDelay
  /\ WatchdogDelay \in Nat
  /\ Never \notin Nat
  /\ Slack \in Nat /\ MarkingTime \in Nat

VARIABLES
  state,     \* state_: action, started_gcs, and relative to now:
             \*   next_gc, the time left until next_gc_start_ms, 0 once there,
             \*   last_gc, the time since last_gc_time_ms, which stops growing
             \*     at WatchdogDelay + 1
  timers,    \* the pending TimerTasks: the time left of each
  marking,   \* incremental marking is in progress
  mutator,   \* "busy" or "idle"
  full,      \* HeapIsFullEnoughToStartIncrementalMarking at the end of the last
             \*   full collection
  serializer_enabled, \* the isolate was made for a snapshot
  torn_down  \* Heap::TearDown has run

vars == <<state, timers, marking, mutator, full, serializer_enabled, torn_down>>

State(action, started_gcs, next_gc, last_gc) ==
  [action |-> action, started_gcs |-> started_gcs,
   next_gc |-> next_gc, last_gc |-> last_gc]

Init ==
  /\ state = State("kDone", 0, 0, Never)
  /\ timers = <<>>
  /\ marking = FALSE
  /\ mutator = "busy"
  /\ full = FALSE
  /\ serializer_enabled \in BOOLEAN
  /\ torn_down = FALSE

(* IncrementalMarking::CanBeActivated: FLAG_incremental_marking is set,    *)
(* the isolate is set up and no collection is running.                     *)
CanBeActivated == ~serializer_enabled
-----------------------------------------------------------------------------
(* Mutant: the comparison is the wrong way round.                          *)
MutWatchdogGC(s) == s.last_gc # Never /\ s.last_gc < WatchdogDelay

WatchdogGC(s) == s.last_gc # Never /\ s.last_gc > WatchdogDelay

(* MemoryReducer::Step, one operator for each type of event.               *)
StepPossibleGarbage(s) ==
  IF s.action = "kDone" THEN State("kWait", 0, LongDelay, s.last_gc) ELSE s

StepMarkCompact(s, collect_more) ==
  IF s.action = "kDone" THEN State("kWait", 0, LongDelay, 0)
  ELSE IF s.action = "kWait" THEN State("kWait", s.started_gcs, LongDelay, 0)
  ELSE IF s.started_gcs < MaxGCs /\ (collect_more \/ s.started_gcs = 1)
       THEN State("kWait", s.started_gcs, ShortDelay, 0)
       ELSE State("kDone", MaxGCs, 0, 0)

(* Mutants: next_gc_start_ms is not looked at; the collections are not     *)
(* counted.                                                                *)
MutTooEarly(s, should_start, can_start) ==
  IF s.action # "kWait" THEN s
  ELSE IF can_start /\ (should_start \/ WatchdogGC(s))
       THEN State("kRun", s.started_gcs + 1, 0, s.last_gc)
       ELSE State("kWait", s.started_gcs, LongDelay, s.last_gc)
MutNoCount(s, should_start, can_start) ==
  IF s.action # "kWait" THEN s
  ELSE IF can_start /\ (should_start \/ WatchdogGC(s))
       THEN IF s.next_gc = 0 THEN State("kRun", s.started_gcs, 0, s.last_gc)
            ELSE s
       ELSE State("kWait", s.started_gcs, LongDelay, s.last_gc)

StepTimer(s, should_start, can_start) ==
  IF s.action # "kWait" THEN s
  ELSE IF s.started_gcs >= MaxGCs THEN State("kDone", MaxGCs, 0, s.last_gc)
  ELSE IF can_start /\ (should_start \/ WatchdogGC(s))
       THEN IF s.next_gc = 0
            THEN State("kRun", s.started_gcs + 1, 0, s.last_gc)
            ELSE s
       ELSE State("kWait", s.started_gcs, LongDelay, s.last_gc)

(* Mutant: a timer is started in kWait, even if there is one.              *)
MutStartTimerOnWait ==
  timers' = IF state'.action = "kWait"
            THEN Append(timers, state'.next_gc + Slack) ELSE timers

(* A change to kWait starts a timer: ScheduleTimer leaves some room.       *)
StartTimerOnWait ==
  timers' = IF state.action # "kWait" /\ state'.action = "kWait"
            THEN Append(timers, state'.next_gc + Slack) ELSE timers

(* NotifyPossibleGarbage: a context is disposed of, memory pressure, or    *)
(* the isolate goes to the background.                                     *)
NotifyPossibleGarbage ==
  /\ ~torn_down /\ mutator = "busy"
  /\ state' = StepPossibleGarbage(state)
  /\ StartTimerOnWait
  /\ UNCHANGED <<marking, mutator, full, serializer_enabled, torn_down>>

(* A mark-compact collection of state s ends any incremental marking, then *)
(* calls NotifyMarkCompact.  After it marking is started for the next      *)
(* cycle if the heap is full enough, idle mutator or not, unless marking   *)
(* is to stay off (ShouldAbortIncrementalMarking).                         *)
Collect(s) ==
  /\ \E collect_more \in BOOLEAN : state' = StepMarkCompact(s, collect_more)
  /\ full' \in BOOLEAN
  /\ marking' \in {FALSE, full' /\ CanBeActivated}

MarkCompact ==
  /\ Collect(state)
  /\ StartTimerOnWait
  /\ UNCHANGED <<mutator, serializer_enabled, torn_down>>

(* A collection that the mutator needs, at any moment.                     *)
MutatorGC == ~torn_down /\ mutator = "busy" /\ MarkCompact

(* Incremental marking reaches its end, and is finalised by a collection.  *)
MarkingEnds == ~torn_down /\ marking /\ MarkCompact

MutatorStartsMarking ==
  /\ ~torn_down /\ mutator = "busy" /\ ~marking
  /\ marking' = TRUE
  /\ UNCHANGED <<state, timers, mutator, full, serializer_enabled, torn_down>>
-----------------------------------------------------------------------------
(* NotifyTimer: s is the state after Step.  With optimize                  *)
(* (ShouldOptimizeForMemoryUsage) it advances marking that is in progress, *)
(* which may end in a collection, with a nested call of NotifyMarkCompact, *)
(* before the timer is started again.  The delay of that timer is reckoned *)
(* from the time the event had on entry, so the timer comes later by the   *)
(* time the marking took.                                                  *)
Advances(s, optimize) == s.action = "kWait" /\ marking /\ optimize

NotifyTimer(s, optimize) ==
  /\ \/ /\ state' = s
        /\ marking' = (marking \/ s.action = "kRun")
        /\ UNCHANGED full
     \/ Advances(s, optimize) /\ Collect(s)
  /\ \E took \in 0 .. MarkingTime :
       /\ took > 0 => Advances(s, optimize)
       /\ timers' = IF s.action = "kWait"
                    THEN Append(Tail(timers), state'.next_gc + Slack + took)
                    ELSE Tail(timers)

(* TimerTask::RunInternal.                                                 *)
RunTimerTask ==
  /\ ~torn_down
  /\ timers # <<>> /\ Head(timers) = 0
  /\ \E optimize \in BOOLEAN :
       NotifyTimer(StepTimer(state, mutator = "idle" \/ optimize,
                             ~marking /\ (CanBeActivated \/ optimize)),
                   optimize)
  /\ UNCHANGED <<mutator, serializer_enabled, torn_down>>

Less(n) == IF n = 0 THEN 0 ELSE n - 1

(* Time goes by.                                                           *)
Tick ==
  /\ ~torn_down
  /\ state' = State(state.action, state.started_gcs, Less(state.next_gc),
                    IF state.last_gc \in {Never, WatchdogDelay + 1}
                    THEN state.last_gc ELSE state.last_gc + 1)
  /\ timers' = [i \in DOMAIN timers |-> Less(timers[i])]
  /\ UNCHANGED <<marking, mutator, full, serializer_enabled, torn_down>>

(* The mutator becomes busy or idle.                                       *)
MutatorChanges ==
  /\ ~torn_down
  /\ mutator' = IF mutator = "busy" THEN "idle" ELSE "busy"
  /\ UNCHANGED <<state, timers, marking, full, serializer_enabled, torn_down>>

(* Isolate::Deinit cancels the tasks, then the heap is torn down.          *)
TearDown ==
  /\ ~torn_down
  /\ state' = State("kDone", 0, 0, Never)
  /\ timers' = <<>>
  /\ torn_down' = TRUE
  /\ UNCHANGED <<marking, mutator, full, serializer_enabled>>

Next ==
  \/ NotifyPossibleGarbage
  \/ MutatorGC
  \/ MarkingEnds
  \/ MutatorStartsMarking
  \/ RunTimerTask
  \/ Tick
  \/ MutatorChanges
  \/ TearDown

Spec == Init /\ [][Next]_vars

(* Time goes on, the platform runs a timer that is due, and marking that   *)
(* is in progress comes to its end.                                        *)
FairSpec ==
  /\ Spec
  /\ WF_vars(Tick)
  /\ WF_vars(RunTimerTask)
  /\ WF_vars(MarkingEnds)
-----------------------------------------------------------------------------
(* The state is well typed.                                                *)
TypeOK ==
  /\ state \in [action : {"kDone", "kWait", "kRun"},
                 started_gcs : 0 .. MaxGCs,
                 next_gc : Nat,
                 last_gc : 0 .. WatchdogDelay + 1 \cup {Never}]
  /\ timers \in Seq(Nat)
  /\ marking \in BOOLEAN
  /\ mutator \in {"busy", "idle"}
  /\ full \in BOOLEAN
  /\ serializer_enabled \in BOOLEAN
  /\ torn_down \in BOOLEAN

(* There is one pending timer task in kWait and none in the other states:  *)
(* the reducer neither stalls in kWait nor is called with a timer in       *)
(* another state (DCHECK_EQ(kWait, state_.action) in NotifyTimer), though  *)
(* a collection may be nested in the handler.  The timer comes after       *)
(* next_gc_start_ms by no more than the slack of ScheduleTimer and the     *)
(* time the handler that started it took.                                  *)
OneTimerInWait ==
  IF state.action = "kWait"
  THEN Len(timers) = 1 /\ timers[1] <= state.next_gc + Slack + MarkingTime
  ELSE timers = <<>>

(* In kRun the marking the reducer has started is still in progress, so    *)
(* the collection that ends kRun will come.                                *)
RunMeansMarking ==
  state.action = "kRun" => marking /\ state.started_gcs >= 1

(* What moves the reducer on is always pending.                            *)
NextEventIsPending == OneTimerInWait /\ RunMeansMarking

(* kWait is entered only with collections left to start, so that the test  *)
(* of started_gcs in the timer is a safety net.                            *)
WaitHasBudget == state.action = "kWait" => state.started_gcs < MaxGCs

(* The reducer implements the automaton of its header.                     *)
Automaton == INSTANCE MemoryReducerAutomaton WITH
  action <- state.action, started_gcs <- state.started_gcs,
  next_gc <- state.next_gc, last_gc <- state.last_gc

ImplementsAutomaton == Automaton!AutomatonSpec

(* Once the mutator stays idle, and collections leave the heap below the   *)
(* limit at which the epilogue starts marking by itself, the reducer comes *)
(* to rest and stays there.  In an isolate that makes a snapshot marking   *)
(* cannot be activated, and the reducer may poll for ever.                 *)
ComesToRest ==
  ~serializer_enabled /\ <>[](mutator = "idle" /\ ~full)
    => <>[](state.action = "kDone")

(* Even with a busy mutator, a full collection happens or is started when  *)
(* the last one is older than the watchdog delay, if marking can be        *)
(* activated at all.                                                       *)
WatchdogForcesGC ==
  (state.action = "kWait" /\ state.last_gc = WatchdogDelay + 1 /\ CanBeActivated)
    ~> (state.action = "kRun" \/ state.last_gc # WatchdogDelay + 1)
=============================================================================
