---------------------- MODULE ProfilerEventsProcessor -----------------------
(***************************************************************************)
(* The CPU profiler's thread (src/src/profiler/cpu-profiler.cc): it brings *)
(* code events, which change the map from addresses to functions, and      *)
(* samples of the stack, which must be looked up in the map as it was when *)
(* they were taken, back into one order.                                   *)
(*                                                                         *)
(* The VM thread numbers and queues code events, and queues samples of its *)
(* own; a signal interrupts it wherever it is, and the handler puts a      *)
(* sample into the ring.  A record's order is the number of the last code  *)
(* event.  During a collection the tasks that evacuate pages in parallel   *)
(* number and queue events too (CodeMoveEvent), without a lock around the  *)
(* two steps: of two tasks, the one that takes the later number may queue  *)
(* its event first.  The two LockedQueues are first-in first-out           *)
(* (QueuesImplementFIFO).                                                  *)
(*                                                                         *)
(* Grain: one access to a queue or to a shared number per step.            *)
(***************************************************************************)
EXTENDS Integers, Sequences, Functions

CONSTANTS
  Evacuators,       \* the tasks of the parallel evacuation
  Length, NoRecord, \* of the ring
  MaxCodeEvents, MaxTicks, MaxSamples \* bounds: code events, the VM's own samples,
                                      \* samples of the signal handler

ASSUME ProfilerAssumption ==
  Length \in Nat \ {0} /\ NoRecord \notin Nat /\ MaxCodeEvents \in Nat

VARIABLES
  buffer, enqueue_pos, dequeue_pos,  \* ticks_buffer_
  events_buffer, ticks_from_vm_buffer,
  last_code_event_id, last_processed_code_event_id,
  code_map,    \* the numbers of the events applied to the code map
  profile,     \* set of the samples recorded, each with its code map
  running,     \* running_
  vm,          \* where the VM thread is
  vm_order,    \* the number it took or read
  moving,      \* [Evacuators -> the number it took for an event not yet queued, or 0]
  overtaken,   \* pairs of events <<m, n>>: m was numbered before n and queued after it
  handler,     \* "idle" or "filling": in the signal handler
  signal,      \* a SIGPROF is pending
  processor,   \* where the processor's thread is
  draining,    \* it is in the final loop
  peeked,      \* what ticks_buffer_.Peek() returned
  ticks, samples \* how many there were so far (bounds)

ringVars == <<buffer, enqueue_pos, dequeue_pos>>
vmVars == <<vm, vm_order, ticks>>
evacuationVars == <<moving, overtaken>>
handlerVars == <<handler, samples>>
profilerVars == <<ringVars, events_buffer, ticks_from_vm_buffer, last_code_event_id,
                  last_processed_code_event_id, code_map, profile, running, vmVars,
                  evacuationVars, handlerVars, signal, processor, draining, peeked>>

Ring == INSTANCE SamplingCircularQueue WITH Nothing <- NoRecord

(* "event": the number is taken, the event not queued; "tick": the number  *)
(* is read, the sample not queued; "gc": in a collection that evacuates;   *)
(* "join": in Join(); "stopped": past it.                                  *)
VmPc == {"run", "event", "tick", "gc", "join", "stopped"}

(* "none": not started; "loop": at the test of the while loop; "vm",       *)
(* "ring", "empty": in ProcessOneSample, before it looks at the VM's       *)
(* samples, at the ring, and whether the former are empty; "record":       *)
(* before it records the ring's sample; "next": before ProcessCodeEvent;   *)
(* "sample": before DoSample; "exited".                                    *)
ProcessorPc == {"none", "loop", "vm", "ring", "empty", "record", "next",
                "sample", "exited"}

ProfilerInit ==
  /\ Ring!Init
  /\ events_buffer = <<>> /\ ticks_from_vm_buffer = <<>>
  /\ last_code_event_id = 0 /\ last_processed_code_event_id = 0
  /\ code_map = <<>> /\ profile = {}
  /\ running = TRUE
  /\ vm = "run" /\ vm_order = 0 /\ ticks = 0
  /\ moving = [e \in Evacuators |-> 0] /\ overtaken = {}
  /\ handler = "idle" /\ samples = 0 /\ signal = FALSE
  /\ processor = "none" /\ draining = FALSE /\ peeked = NoRecord
-----------------------------------------------------------------------------
(* The VM thread, while no handler runs on it.                             *)
VmStep(from, to) ==
  /\ vm = from /\ handler = "idle" /\ vm' = to
  /\ UNCHANGED <<ringVars, last_processed_code_event_id, code_map, profile,
                 evacuationVars, handlerVars, signal, draining, peeked>>

(* Enqueue: last_code_event_id_.Increment(1).                              *)
TakeNumber ==
  /\ VmStep("run", "event") /\ last_code_event_id < MaxCodeEvents
  /\ last_code_event_id' = last_code_event_id + 1
  /\ vm_order' = last_code_event_id + 1
  /\ UNCHANGED <<events_buffer, ticks_from_vm_buffer, running, ticks, processor>>

(* Enqueue: events_buffer_.Enqueue.                                        *)
QueueEvent ==
  /\ VmStep("event", "run")
  /\ events_buffer' = Append(events_buffer, vm_order)
  /\ UNCHANGED <<last_code_event_id, ticks_from_vm_buffer, running, vm_order,
                 ticks, processor>>

(* AddCurrentStack and AddDeoptStack.                                      *)
TakeTick ==
  /\ VmStep("run", "tick") /\ ticks < MaxTicks
  /\ vm_order' = last_code_event_id
  /\ ticks' = ticks + 1
  /\ UNCHANGED <<last_code_event_id, events_buffer, ticks_from_vm_buffer,
                 running, processor>>

QueueTick ==
  /\ VmStep("tick", "run")
  /\ ticks_from_vm_buffer' = Append(ticks_from_vm_buffer, vm_order)
  /\ UNCHANGED <<last_code_event_id, events_buffer, running, vm_order, ticks,
                 processor>>

(* StartProcessorIfNotStarted: StartSynchronously.                         *)
StartProcessor ==
  /\ VmStep("run", "run") /\ processor = "none"
  /\ processor' = "loop"
  /\ UNCHANGED <<last_code_event_id, events_buffer, ticks_from_vm_buffer,
                 running, vm_order, ticks>>

(* StopSynchronously, up to Join() and from it.                            *)
StopSynchronously ==
  /\ VmStep("run", "join") /\ processor # "none"
  /\ running' = FALSE
  /\ UNCHANGED <<last_code_event_id, events_buffer, ticks_from_vm_buffer,
                 vm_order, ticks, processor>>

Joined ==
  /\ VmStep("join", "stopped") /\ processor = "exited"
  /\ UNCHANGED <<last_code_event_id, events_buffer, ticks_from_vm_buffer,
                 running, vm_order, ticks, processor>>

(* SampleStack: StartTickSample, which gives up if the ring is full.       *)
StartTickSample ==
  /\ signal /\ handler = "idle" /\ vm # "stopped"
  /\ signal' = FALSE
  /\ samples' = samples + 1
  /\ IF Ring!StartEnqueue
     THEN handler' = "filling" /\ Ring!Write(last_code_event_id)
     ELSE UNCHANGED <<handler, ringVars>>
  /\ UNCHANGED <<events_buffer, ticks_from_vm_buffer, last_code_event_id,
                 last_processed_code_event_id, code_map, profile, running,
                 vmVars, evacuationVars, processor, draining, peeked>>

FinishTickSample ==
  /\ handler = "filling"
  /\ handler' = "idle"
  /\ Ring!FinishEnqueue
  /\ UNCHANGED <<events_buffer, ticks_from_vm_buffer, last_code_event_id,
                 last_processed_code_event_id, code_map, profile, running,
                 vmVars, evacuationVars, samples, signal, processor, draining,
                 peeked>>
-----------------------------------------------------------------------------
(* A collection starts to evacuate pages in parallel, and ends when the    *)
(* tasks have ended.                                                       *)
StartEvacuation ==
  /\ VmStep("run", "gc")
  /\ UNCHANGED <<last_code_event_id, events_buffer, ticks_from_vm_buffer,
                 running, vm_order, ticks, processor>>

EndEvacuation ==
  /\ VmStep("gc", "run") /\ \A e \in Evacuators : moving[e] = 0
  /\ UNCHANGED <<last_code_event_id, events_buffer, ticks_from_vm_buffer,
                 running, vm_order, ticks, processor>>

EvacuatorStep ==
  /\ vm = "gc"
  /\ UNCHANGED <<ringVars, ticks_from_vm_buffer, last_processed_code_event_id,
                 code_map, profile, running, vmVars, handlerVars, signal,
                 processor, draining, peeked>>

(* Enqueue by a task that moves a code object, in the same two steps.      *)
TakeMoveNumber(e) ==
  /\ EvacuatorStep /\ moving[e] = 0 /\ last_code_event_id < MaxCodeEvents
  /\ last_code_event_id' = last_code_event_id + 1
  /\ moving' = [moving EXCEPT ![e] = last_code_event_id + 1]
  /\ UNCHANGED <<events_buffer, overtaken>>

QueueMoveEvent(e) ==
  /\ EvacuatorStep /\ moving[e] # 0
  /\ events_buffer' = Append(events_buffer, moving[e])
  /\ moving' = [moving EXCEPT ![e] = 0]
  /\ overtaken' = overtaken \cup {<<m, moving[e]>> : m \in Range(moving) \cap 1 .. moving[e] - 1}
  /\ UNCHANGED last_code_event_id
-----------------------------------------------------------------------------
ProcessorStep(from, to) ==
  /\ processor = from /\ processor' = to
  /\ UNCHANGED <<last_code_event_id, running, vmVars, evacuationVars, handlerVars>>

(* RecordTickSample.                                                       *)
Record(order) == profile' = profile \cup {[order |-> order, map |-> code_map]}

(* After a sample: the inner loop goes on, or it is time for the next one; *)
(* the final loop goes on.                                                 *)
GoOn == IF draining THEN {"vm"} ELSE {"vm", "sample"}

(* The test of the while loop, past which comes the final loop.            *)
WhileRunning ==
  /\ ProcessorStep("loop", "vm")
  /\ draining' = ~running
  /\ UNCHANGED <<ringVars, events_buffer, ticks_from_vm_buffer, code_map,
                 last_processed_code_event_id, profile, signal, peeked>>

(* Mutant: the order of the VM's sample is not looked at.                  *)
MutVmSampleIsDue == ticks_from_vm_buffer # <<>>

VmSampleIsDue ==
  /\ ticks_from_vm_buffer # <<>>
  /\ Head(ticks_from_vm_buffer) = last_processed_code_event_id

(* ProcessOneSample: a sample of the VM, if it is due.                     *)
LookAtVm(to) ==
  /\ ProcessorStep("vm", to)
  /\ IF VmSampleIsDue
     THEN /\ to \in GoOn
          /\ Record(Head(ticks_from_vm_buffer))
          /\ ticks_from_vm_buffer' = Tail(ticks_from_vm_buffer)
     ELSE to = "ring" /\ UNCHANGED <<ticks_from_vm_buffer, profile>>
  /\ UNCHANGED <<ringVars, events_buffer, code_map, draining,
                 last_processed_code_event_id, signal, peeked>>

(* ticks_buffer_.Peek(), and what it is compared with.                     *)
LookAtRing(to) ==
  /\ ProcessorStep("ring", to)
  /\ peeked' = Ring!Peek
  /\ to = CASE peeked' = NoRecord -> "empty"
            [] peeked' = last_processed_code_event_id -> "record"
            [] OTHER -> "next"
  /\ UNCHANGED <<ringVars, events_buffer, ticks_from_vm_buffer, code_map,
                 draining, last_processed_code_event_id, profile, signal>>

RecordFromRing(to) ==
  /\ ProcessorStep("record", to) /\ to \in GoOn
  /\ Record(buffer[dequeue_pos].record)
  /\ Ring!Remove
  /\ UNCHANGED <<events_buffer, ticks_from_vm_buffer, code_map, draining,
                 last_processed_code_event_id, signal, peeked>>

(* The ring is empty; if the VM has queued no sample either, the inner     *)
(* loop ends.                                                              *)
LookIfEmpty(to) ==
  /\ ProcessorStep("empty", to)
  /\ to = IF ticks_from_vm_buffer = <<>> /\ ~draining THEN "sample" ELSE "next"
  /\ UNCHANGED <<ringVars, events_buffer, ticks_from_vm_buffer, code_map,
                 draining, last_processed_code_event_id, profile, signal, peeked>>

(* ProcessCodeEvent; the final loop ends when there is none.  (Events have *)
(* no type without a case, so that "default: return true" is never taken.) *)
ProcessCodeEvent(to) ==
  /\ ProcessorStep("next", to)
  /\ IF events_buffer = <<>>
     THEN /\ to \in IF draining THEN {"exited"} ELSE GoOn
          /\ UNCHANGED <<events_buffer, code_map, last_processed_code_event_id>>
     ELSE /\ to \in GoOn
          /\ events_buffer' = Tail(events_buffer)
          /\ code_map' = Append(code_map, Head(events_buffer))
          /\ last_processed_code_event_id' = Head(events_buffer)
  /\ UNCHANGED <<ringVars, ticks_from_vm_buffer, profile, draining, signal, peeked>>

(* The sleep is over: DoSample sends the signal.                           *)
DoSample ==
  /\ ProcessorStep("sample", "loop")
  /\ signal' = (signal \/ samples < MaxSamples)
  /\ UNCHANGED <<ringVars, events_buffer, ticks_from_vm_buffer, code_map,
                 draining, last_processed_code_event_id, profile, peeked>>
-----------------------------------------------------------------------------
Vm ==
  \/ TakeNumber \/ QueueEvent \/ TakeTick \/ QueueTick
  \/ StartProcessor \/ StopSynchronously \/ Joined
  \/ StartEvacuation \/ EndEvacuation

Evacuation == \E e \in Evacuators : TakeMoveNumber(e) \/ QueueMoveEvent(e)

SignalHandler == StartTickSample \/ FinishTickSample

Processor ==
  \/ WhileRunning \/ DoSample
  \/ \E to \in ProcessorPc :
       LookAtVm(to) \/ LookAtRing(to) \/ RecordFromRing(to) \/ LookIfEmpty(to)
         \/ ProcessCodeEvent(to)

ProfilerNext == Vm \/ Evacuation \/ SignalHandler \/ Processor

ProfilerSpec == ProfilerInit /\ [][ProfilerNext]_profilerVars
-----------------------------------------------------------------------------
(* Event m is ahead of event n: it has the smaller number, unless tasks    *)
(* that evacuate in parallel were moving code for both at once and the     *)
(* event with the later number was queued first.                           *)
Ahead(m, n) == IF m < n THEN <<m, n>> \notin overtaken ELSE <<n, m>> \in overtaken

(* Every sample is looked up in the code map it was taken under: when it   *)
(* is recorded the event it has the number of has been applied and those   *)
(* ahead of it, in order, and no others, although the signal may come      *)
(* between the numbering and the queueing of an event and samples come     *)
(* through two queues.  Events are missing, early or out of order only     *)
(* where one task of a parallel evacuation overtook another.               *)
SamplesMeetTheirCodeMap ==
  \A s \in profile :
    /\ Range(s.map) = {m \in 1 .. last_code_event_id : m = s.order \/ Ahead(m, s.order)}
    /\ \A i, j \in DOMAIN s.map : i < j => Ahead(s.map[i], s.map[j])

(* The comment in Run, "All ticks of the current                           *)
(* last_processed_code_event_id_ are processed, proceed to the next code   *)
(* event": no sample is left behind by the code events.                    *)
AllTicksAreProcessed ==
  \A i \in DOMAIN ticks_from_vm_buffer :
    ticks_from_vm_buffer[i] >= last_processed_code_event_id
=============================================================================
