---------------------- MODULE MemoryReducerAutomaton ------------------------
(***************************************************************************)
(* What the memory reducer promises: the automaton of the comment of class *)
(* MemoryReducer (src/src/heap/memory-reducer.h), without the heap, the    *)
(* timers and the reasons for the transitions.                             *)
(*                                                                         *)
(* Times are relative: next_gc is the time left until next_gc_start_ms, 0  *)
(* once it has come, and last_gc is the age of the last full collection,   *)
(* which stops growing past the watchdog delay.                            *)
(***************************************************************************)
EXTENDS Integers

CONSTANTS
  MaxGCs,        \* kMaxNumberOfGCs
  LongDelay,     \* kLongDelayMs
  ShortDelay,    \* kShortDelayMs
  WatchdogDelay, \* kWatchdogDelayMs
  Never          \* last_gc_time_ms = 0: no full collection so far

VARIABLES action, started_gcs, next_gc, last_gc

automatonVars == <<action, started_gcs, next_gc, last_gc>>

AutomatonInit ==
  action = "kDone" /\ started_gcs = 0 /\ next_gc = 0 /\ last_gc = Never

(* The age of the last collection after a step that may be one.            *)
MaybeGC == last_gc' \in {last_gc, 0}

DoneToWait ==
  /\ action = "kDone" /\ action' = "kWait"
  /\ started_gcs' = 0
  /\ next_gc' = LongDelay
  /\ MaybeGC

WaitToWait ==
  /\ action = "kWait" /\ action' = "kWait"
  /\ started_gcs' = started_gcs
  /\ next_gc' = LongDelay
  /\ MaybeGC

WaitToDone ==
  /\ action = "kWait" /\ action' = "kDone"
  /\ started_gcs >= MaxGCs /\ started_gcs' = MaxGCs
  /\ next_gc' = 0
  /\ last_gc' = last_gc

(* A collection is started only when next_gc_start_ms has come.            *)
WaitToRun ==
  /\ action = "kWait" /\ action' = "kRun"
  /\ next_gc = 0 /\ next_gc' = 0
  /\ started_gcs' = started_gcs + 1
  /\ last_gc' = last_gc

RunToWait ==
  /\ action = "kRun" /\ action' = "kWait"
  /\ started_gcs < MaxGCs /\ started_gcs' = started_gcs
  /\ next_gc' = ShortDelay
  /\ last_gc' = 0

RunToDone ==
  /\ action = "kRun" /\ action' = "kDone"
  /\ started_gcs > 1 \/ started_gcs = MaxGCs
  /\ started_gcs' = MaxGCs
  /\ next_gc' = 0
  /\ last_gc' = 0

(* The end of the isolate.                                                 *)
Reset ==
  /\ action' = "kDone"
  /\ started_gcs' = 0
  /\ next_gc' = 0
  /\ last_gc' = Never

TimePasses ==
  /\ next_gc' = IF next_gc = 0 THEN 0 ELSE next_gc - 1
  /\ last_gc' = IF last_gc \in {Never, WatchdogDelay + 1} THEN last_gc
                ELSE last_gc + 1
  /\ UNCHANGED <<action, started_gcs>>

AutomatonNext ==
  \/ DoneToWait \/ WaitToWait \/ WaitToDone \/ WaitToRun
  \/ RunToWait \/ RunToDone
  \/ Reset \/ TimePasses

AutomatonSpec == AutomatonInit /\ [][AutomatonNext]_automatonVars
=============================================================================
