--------------------------- MODULE ThreadManager ----------------------------
(***************************************************************************)
(* Threads that share an isolate (Locker, Unlocker and ThreadManager in    *)
(* src/src/v8threads.cc) and their interrupts (StackGuard).                *)
(*                                                                         *)
(* A thread that lets go of the isolate leaves its state in place ("lazily *)
(* archived") and only reserves a ThreadState; the next thread to come     *)
(* really archives it there, unless it is the same one.  Of the state that *)
(* is archived the stack guard's thread_local_ stands for the rest: it is  *)
(* the part that other threads write to, by requesting interrupts.         *)
(*                                                                         *)
(* Grain: taking the isolate's mutex, RestoreThread, the second            *)
(* initialisation in Locker::Initialize and each CheckAndClearInterrupt of *)
(* HandleInterrupts are steps; requests come in between.                   *)
(***************************************************************************)
EXTENDS StackGuard, FiniteSets, Functions

CONSTANTS
  Threads,
  Requests,  \* the interrupts that are requested
  Masks,     \* the masks of the scopes that are opened
  MaxFrames, \* bound: lockers, unlockers and scopes on all stacks together
  Null       \* an invalid thread id, or NULL

ASSUME ThreadsAssumption ==
  /\ Requests \subseteq InterruptFlag /\ Masks \subseteq SUBSET InterruptFlag
  /\ Null \notin Threads /\ Null \notin Nat
  /\ kInterruptLimit # kIllegalLimit
  /\ \A t \in Threads : \A i \in {0, 1} :
       <<t, i>> \notin {kIllegalLimit, kInterruptLimit, NoLimit}

VARIABLES
  thread_local,  \* thread_local_
  mutex_owner, lazily_archived_thread, lazily_archived_thread_state,
  free_list,     \* sequence of the ThreadStates after free_anchor_
  in_use_list,   \* set of the ThreadStates after in_use_anchor_
  data,          \* sequence over all ThreadStates: what is archived in each
  thread_state, stack_limit, \* [Threads -> ...]: the PerIsolateThreadData
  frames,        \* [Threads -> Seq(Frame)]: the objects on each stack
  step,          \* [Threads -> Step]: what each thread is in the middle of
  to_handle,     \* [Threads -> Seq]: what HandleInterrupts has yet to check
  occupant,      \* whose state thread_local_ is (history)
  owed           \* [Threads -> SUBSET Requests]: requested of a thread, and
                 \* not handled (history)

listVars == <<lazily_archived_thread, lazily_archived_thread_state, free_list,
              in_use_list, data, thread_state>>
vars == <<listVars, thread_local, mutex_owner, stack_limit, frames, step,
          to_handle, occupant, owed>>

Locker(has_lock, top_level) ==
  [kind |-> "Locker", has_lock |-> has_lock, top_level |-> top_level, mask |-> {}]
Unlocker == [Locker(FALSE, FALSE) EXCEPT !.kind = "Unlocker"]
Scope(m) == [Locker(FALSE, FALSE) EXCEPT !.kind = "Scope", !.mask = m]

(* "locker", "unlocker": Locker::Initialize or ~Unlocker has the mutex and *)
(* is about to restore; "new": RestoreThread returned false.               *)
Step == {"none", "locker", "unlocker", "new"}

(* The limit that a thread's stack suggests, and another the embedder sets. *)
Suggested(t) == <<t, 0>>
Chosen(t) == <<t, 1>>

Push(t, frame) == frames' = [frames EXCEPT ![t] = Append(@, frame)]
Pop(t) == frames' = [frames EXCEPT ![t] = SubSeq(@, 1, Len(@) - 1)]
Top(t) == frames[t][Len(frames[t])]
HasTop(t, kind) == frames[t] # <<>> /\ Top(t).kind = kind

HasRoom == FoldFunction(LAMBDA fs, n : Len(fs) + n, 0, frames) < MaxFrames

(* The thread is inside and executes code of its own.                      *)
Runs(t) == mutex_owner = t /\ step[t] = "none" /\ to_handle[t] = <<>>
Outside(t) == step[t] = "none" /\ (frames[t] = <<>> \/ HasTop(t, "Unlocker"))

Init ==
  /\ \E t \in Threads : thread_local = InitThread(ClearedThreadLocal, Suggested(t), NoLimit)
  /\ mutex_owner = Null /\ lazily_archived_thread = Null
  /\ lazily_archived_thread_state = Null
  /\ free_list = <<>> /\ in_use_list = {} /\ data = <<>>
  /\ thread_state = [t \in Threads |-> Null]
  /\ stack_limit = [t \in Threads |-> NoLimit]
  /\ frames = [t \in Threads |-> <<>>]
  /\ step = [t \in Threads |-> "none"]
  /\ to_handle = [t \in Threads |-> <<>>]
  /\ occupant = Null
  /\ owed = [t \in Threads |-> {}]
-----------------------------------------------------------------------------
(* Locker::Initialize when the thread has the isolate already.             *)
NestedLocker(t) ==
  /\ Runs(t) /\ HasRoom
  /\ Push(t, Locker(FALSE, TRUE))
  /\ UNCHANGED <<listVars, thread_local, mutex_owner, stack_limit, step,
                 to_handle, occupant, owed>>

(* ThreadManager::Lock, in Locker::Initialize or in ~Unlocker.             *)
Lock(t, from) ==
  /\ Outside(t) /\ mutex_owner = Null
  /\ IF from = "locker" THEN HasRoom ELSE HasTop(t, "Unlocker")
  /\ mutex_owner' = t
  /\ step' = [step EXCEPT ![t] = from]
  /\ UNCHANGED <<listVars, thread_local, stack_limit, frames, to_handle,
                 occupant, owed>>

(* The constructor or destructor that called RestoreThread goes on: a      *)
(* locker of a new thread initialises it, after this step.                 *)
Restored(t, known) ==
  /\ step' = [step EXCEPT ![t] = IF known THEN "none" ELSE "new"]
  /\ IF step[t] = "unlocker" THEN Pop(t) ELSE Push(t, Locker(TRUE, ~known))
  /\ UNCHANGED <<mutex_owner, stack_limit, to_handle, owed>>

(* RestoreThread: the state of this very thread is still in place.         *)
RestoreLazily(t) ==
  /\ step[t] \in {"locker", "unlocker"} /\ lazily_archived_thread = t
  /\ lazily_archived_thread' = Null /\ lazily_archived_thread_state' = Null
  /\ free_list' = <<lazily_archived_thread_state>> \o free_list
  /\ thread_state' = [thread_state EXCEPT ![t] = Null]
  /\ Restored(t, TRUE)
  /\ UNCHANGED <<in_use_list, data, thread_local, occupant>>

(* RestoreThread otherwise.  With the state in place archived by           *)
(* EagerlyArchiveThread, which leaves it blank, the thread's own state is  *)
(* restored from its ThreadState or, if it has none, initialised.  (What   *)
(* stays in a ThreadState that is free is never read, and is dropped;      *)
(* terminate_on_restore_ is left out: only ThreadManager's own             *)
(* TerminateExecution sets it, and nothing calls that.)                    *)
RestoreFrom(t, blank, archived, used) ==
  LET state == thread_state[t]
  IN  /\ step[t] \in {"locker", "unlocker"} /\ lazily_archived_thread # t
      /\ lazily_archived_thread' = Null /\ lazily_archived_thread_state' = Null
      /\ IF state = Null
         THEN /\ thread_local' = InitThread(blank, Suggested(t), stack_limit[t])
              /\ data' = archived /\ in_use_list' = used
              /\ occupant' = Null
              /\ UNCHANGED <<free_list, thread_state>>
         ELSE /\ thread_local' = archived[state]
              /\ data' = [archived EXCEPT ![state] = ClearedThreadLocal]
              /\ in_use_list' = used \ {state}
              /\ free_list' = <<state>> \o free_list
              /\ thread_state' = [thread_state EXCEPT ![t] = Null]
              /\ occupant' = t
      /\ Restored(t, state # Null)

(* Mutant: the thread that was archived lazily is forgotten.               *)
MutRestoreThread(t) == RestoreFrom(t, thread_local, data, in_use_list)

ArchiveStackGuard(state) == [data EXCEPT ![state] = thread_local]

RestoreThread(t) ==
  IF lazily_archived_thread = Null
  THEN RestoreFrom(t, thread_local, data, in_use_list)
  ELSE RestoreFrom(t, ClearedThreadLocal,
         ArchiveStackGuard(lazily_archived_thread_state),
         in_use_list \cup {lazily_archived_thread_state})

(* Mutant: the stale limits of the thread that was here are kept.          *)
MutInitNewThread(t) ==
  /\ step[t] = "new"
  /\ thread_local' = InitThread(thread_local, Suggested(t), stack_limit[t])
  /\ step' = [step EXCEPT ![t] = "none"]
  /\ occupant' = t /\ owed' = [owed EXCEPT ![t] = {}]
  /\ UNCHANGED <<listVars, mutex_owner, stack_limit, frames, to_handle>>

(* Locker::Initialize: ClearThread and InitThread for a new thread.        *)
InitNewThread(t) ==
  /\ step[t] = "new"
  /\ thread_local' = InitThread(ClearedThreadLocal, Suggested(t), stack_limit[t])
  /\ step' = [step EXCEPT ![t] = "none"]
  /\ occupant' = t /\ owed' = [owed EXCEPT ![t] = {}]
  /\ UNCHANGED <<listVars, mutex_owner, stack_limit, frames, to_handle>>
-----------------------------------------------------------------------------
(* ArchiveThread: reserve a ThreadState, the one freed last or a new one.  *)
FreeThreadState == IF free_list = <<>> THEN Len(data) + 1 ELSE Head(free_list)

ArchiveThread(t) ==
  /\ lazily_archived_thread' = t
  /\ lazily_archived_thread_state' = FreeThreadState
  /\ thread_state' = [thread_state EXCEPT ![t] = FreeThreadState]
  /\ IF free_list = <<>>
     THEN data' = Append(data, ClearedThreadLocal) /\ UNCHANGED free_list
     ELSE free_list' = Tail(free_list) /\ UNCHANGED data
  /\ UNCHANGED in_use_list

(* Unlocker::Initialize.                                                   *)
OpenUnlocker(t) ==
  /\ Runs(t) /\ HasRoom
  /\ ArchiveThread(t)
  /\ mutex_owner' = Null
  /\ Push(t, Unlocker)
  /\ UNCHANGED <<thread_local, stack_limit, step, to_handle, occupant, owed>>

(* The thread leaves for good: its limit is stored.                        *)
FreeThreadResources(t) ==
  /\ stack_limit' = [stack_limit EXCEPT ![t] = thread_local.real]
  /\ occupant' = Null
  /\ owed' = [owed EXCEPT ![t] = {}]

(* ~Locker.                                                                *)
CloseLocker(t) ==
  /\ Runs(t) /\ HasTop(t, "Locker")
  /\ Pop(t)
  /\ mutex_owner' = IF Top(t).has_lock THEN Null ELSE t
  /\ IF Top(t).has_lock /\ ~Top(t).top_level
     THEN ArchiveThread(t) /\ UNCHANGED <<stack_limit, occupant, owed>>
     ELSE /\ IF Top(t).has_lock
             THEN FreeThreadResources(t)
             ELSE UNCHANGED <<stack_limit, occupant, owed>>
          /\ UNCHANGED listVars
  /\ UNCHANGED <<thread_local, step, to_handle>>

Guarded(tl) ==
  /\ thread_local' = tl
  /\ UNCHANGED <<listVars, mutex_owner, stack_limit, step, occupant>>

OpenScope(t, m) ==
  /\ Runs(t) /\ HasRoom
  /\ Push(t, Scope(m))
  /\ Guarded(PushPostponeInterruptsScope(thread_local, m))
  /\ UNCHANGED <<to_handle, owed>>

CloseScope(t) ==
  /\ Runs(t) /\ HasTop(t, "Scope")
  /\ Pop(t)
  /\ Guarded(PopPostponeInterruptsScope(thread_local))
  /\ UNCHANGED <<to_handle, owed>>

EmbedderSetsLimit(t) ==
  /\ Runs(t) /\ thread_local.real # Chosen(t)
  /\ Guarded(SetStackLimit(thread_local, Chosen(t)))
  /\ UNCHANGED <<frames, to_handle, owed>>
-----------------------------------------------------------------------------
(* Any thread requests an interrupt, or takes a request back: it goes to   *)
(* the thread whose state is in place, if there is one.                    *)
Request(flag) ==
  /\ flag \notin Pending(thread_local)
  /\ Guarded(RequestInterrupt(thread_local, flag))
  /\ owed' = [t \in Threads |-> IF t = occupant THEN owed[t] \cup {flag} ELSE owed[t]]
  /\ UNCHANGED <<frames, to_handle>>

Cleared(fs) ==
  owed' = [t \in Threads |-> IF t = occupant THEN owed[t] \ fs ELSE owed[t]]

CancelTerminateExecution ==
  /\ "TERMINATE_EXECUTION" \in Pending(thread_local)
  /\ Guarded(ClearInterrupt(thread_local, "TERMINATE_EXECUTION"))
  /\ Cleared({"TERMINATE_EXECUTION"})
  /\ UNCHANGED <<frames, to_handle>>

HandleOrder ==
  <<"GC_REQUEST", "DEBUGBREAK", "TERMINATE_EXECUTION",
    "DEOPT_MARKED_ALLOCATION_SITES", "INSTALL_CODE", "API_INTERRUPT">>

(* A stack check fails, and HandleInterrupts is called.                    *)
StackCheck(t) ==
  /\ Runs(t) /\ ~Outside(t) /\ thread_local.limit = kInterruptLimit
  /\ to_handle' = [to_handle EXCEPT ![t] = HandleOrder]
  /\ UNCHANGED <<listVars, thread_local, mutex_owner, stack_limit, frames, step,
                 occupant, owed>>

(* Debug::HandleDebugBreak, which may decide to ignore the break.          *)
HandleDebugBreak ==
  \/ Guarded(thread_local) /\ UNCHANGED owed
  \/ /\ DebugFlags \cap thread_local.flags # {}
     /\ Guarded(ClearInterrupt(ClearInterrupt(thread_local,
                     "DEBUGBREAK"), "DEBUGCOMMAND"))
     /\ Cleared(DebugFlags)

(* One check of HandleInterrupts.  A termination ends the handling.        *)
HandleNext(t) ==
  LET flag == Head(to_handle[t])
      found == flag \in thread_local.flags
      rest == IF flag = "TERMINATE_EXECUTION" /\ found THEN <<>>
              ELSE Tail(to_handle[t])
  IN  /\ to_handle[t] # <<>>
      /\ to_handle' = [to_handle EXCEPT ![t] = rest]
      /\ IF flag = "DEBUGBREAK"
         THEN HandleDebugBreak
         ELSE /\ Guarded(CheckAndClearInterrupt(thread_local, flag))
              /\ Cleared({flag} \cap thread_local.flags)
      /\ UNCHANGED frames
-----------------------------------------------------------------------------
ThreadStep(t) ==
  \/ NestedLocker(t)
  \/ Lock(t, "locker") \/ Lock(t, "unlocker")
  \/ RestoreLazily(t) \/ RestoreThread(t) \/ InitNewThread(t)
  \/ OpenUnlocker(t) \/ CloseLocker(t)
  \/ \E m \in Masks : OpenScope(t, m)
  \/ CloseScope(t)
  \/ EmbedderSetsLimit(t)
  \/ StackCheck(t) \/ HandleNext(t)

Next ==
  \/ \E t \in Threads : ThreadStep(t)
  \/ \E flag \in Requests : Request(flag)
  \/ CancelTerminateExecution

Spec == Init /\ [][Next]_vars
-----------------------------------------------------------------------------
Inside == {t \in Threads : frames[t] # <<>> /\ step[t] # "new"}

(* Where the state of a thread is: in place, or in its ThreadState.        *)
StateOf(t) == IF occupant = t THEN thread_local ELSE data[thread_state[t]]

(* Whatever is requested of a thread stays with it until it is handled or  *)
(* taken back: scopes opened and closed, the thread leaving and coming     *)
(* back, its state archived by others and ThreadStates reused lose nothing *)
(* and give nothing to another thread.                                     *)
InterruptsAreConserved ==
  \A t \in Inside : Pending(StateOf(t)) = owed[t]

(* In place or archived, the state of every thread is well guarded.        *)
ScopesHoldBack == \A t \in Inside : WellGuarded(StateOf(t))

(* The number of scopes among the first i objects on a stack.              *)
ScopesUpTo(fs, i) == Cardinality({j \in 1 .. i : fs[j].kind = "Scope"})

(* Every thread has its own state: the open scopes are those on its stack, *)
(* in their order, and the limit is one of its own stack.  A thread that   *)
(* runs has its state in place; the ThreadStates are free, in use or       *)
(* reserved for the thread that left last.                                 *)
StatesAreApart ==
  /\ \A t \in Inside :
       /\ Len(StateOf(t).scopes) = ScopesUpTo(frames[t], Len(frames[t]))
       /\ \A i \in DOMAIN frames[t] : frames[t][i].kind = "Scope" =>
            StateOf(t).scopes[ScopesUpTo(frames[t], i)].mask = frames[t][i].mask
       /\ StateOf(t).real[1] = t
       /\ mutex_owner = t /\ step[t] = "none" => occupant = t
  /\ \A t \in Threads : thread_state[t] # Null =>
       \/ lazily_archived_thread = t /\ lazily_archived_thread_state = thread_state[t]
       \/ thread_state[t] \in in_use_list
  /\ Len(free_list) + Cardinality(in_use_list)
       + (IF lazily_archived_thread_state = Null THEN 0 ELSE 1) = Len(data)
=============================================================================
