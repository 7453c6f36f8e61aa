--------------------------- MODULE FutexEmulation ---------------------------
(***************************************************************************)
(* Atomics.wait and Atomics.wake (src/src/futex-emulation.{h,cc}), and the *)
(* interrupt requests that must end a wait (StackGuard::RequestInterrupt   *)
(* and HandleInterrupts in src/src/execution.cc).                          *)
(*                                                                         *)
(* Each isolate runs on a thread of its own and has one wait list node.    *)
(* What Wait does between two releases of mutex_ is one step; mutex is     *)
(* nonetheless a variable, because who holds it while taking an isolate's  *)
(* ExecutionAccess lock decides whether the two locks can deadlock.        *)
(***************************************************************************)
EXTENDS Integers, Sequences, FiniteSetsExt

CONSTANTS
  Isolates, None,
  Addrs,         \* (backing store, address) pairs
  Values,        \* what a cell may hold
  WakeCounts,    \* num_waiters_to_wake of callers
  Budgets        \* bounds: how many calls of each kind a behaviour may have

ASSUME FutexAssumption ==
  /\ IsFiniteSet(Isolates)
  /\ Addrs # {} /\ 0 \in Values
  /\ WakeCounts \subseteq Nat

(* The kinds of calls and wakeups that have to be bounded.                 *)
Kinds == {"wait", "wake", "store", "request", "spurious"}

VARIABLES
  memory,      \* [Addrs -> Values]: shared array buffers, zeroed when new
  pc,          \* [Isolates -> Pc]: where the isolate's thread is in Wait
  call,        \* [Isolates -> Calls]: the arguments of its Wait
  expired,     \* [Isolates -> BOOLEAN]: the timeout of that call is over
  waiting,     \* [Isolates -> BOOLEAN]: waiting_ of its node
  interrupted, \* [Isolates -> BOOLEAN]: interrupted_ of its node
  saved,       \* [Isolates -> BOOLEAN]: the local variable interrupted
  wait_list,   \* the nodes of wait_list_, by isolate, from head_ to tail_
  mutex,       \* holder of mutex_ between two steps, or None
  flags,       \* [Isolates -> SUBSET Flags]: interrupt_flags_
  access,      \* [Isolates -> BOOLEAN]: a requester holds ExecutionAccess
  result,      \* [Isolates -> Results]: what its last Wait returned
  wake,        \* last Wake: what it returned, whom it could have woken
  waked,       \* [Addrs -> BOOLEAN]: Wake of all since the last store
  budget       \* calls that may still be made, by kind

futexVars == <<memory, pc, call, expired, waiting, interrupted, saved,
               wait_list, mutex, flags, access, result, wake, waked, budget>>

Flags == {"TERMINATE_EXECUTION", "API_INTERRUPT"}

(* "idle": not in Wait; "enter": called, mutex_ not taken yet; "unlocked": *)
(* in the loop with mutex_ released; "terminate", "api": in                *)
(* HandleInterrupts, about to look at that flag; "relock": about to take   *)
(* mutex_ again; "blocked": asleep on cond_; "top": woken up; "exception": *)
(* about to take mutex_ and return the termination exception.              *)
Pc == {"idle", "enter", "unlocked", "terminate", "api", "relock", "blocked",
       "top", "exception"}

Calls == [addr : Addrs, value : Values, timed : BOOLEAN]

(* The arguments and locals of a Wait that is over are gone.               *)
NoCall == CHOOSE c \in Calls : ~c.timed /\ c.value = 0

LocalsDie(i) ==
  /\ call' = [call EXCEPT ![i] = NoCall]
  /\ expired' = [expired EXCEPT ![i] = FALSE]
  /\ saved' = [saved EXCEPT ![i] = FALSE]

Results == {"none", "not-equal", "ok", "timed-out", "exception"}

InWait(i) == pc[i] \notin {"idle", "enter"}

(* The thread t (an isolate's, or None) can take mutex_.                   *)
CanLock(t) == mutex \in {None, t}

Spend(kind) ==
  /\ budget[kind] > 0
  /\ budget' = [budget EXCEPT ![kind] = @ - 1]

FutexInit ==
  /\ memory = [a \in Addrs |-> 0]
  /\ pc = [i \in Isolates |-> "idle"]
  /\ call = [i \in Isolates |-> NoCall]
  /\ expired = [i \in Isolates |-> FALSE]
  /\ waiting = [i \in Isolates |-> FALSE]
  /\ interrupted = [i \in Isolates |-> FALSE]
  /\ saved = [i \in Isolates |-> FALSE]
  /\ wait_list = <<>>
  /\ mutex = None
  /\ flags = [i \in Isolates |-> {}]
  /\ access = [i \in Isolates |-> FALSE]
  /\ result = [i \in Isolates |-> "none"]
  /\ wake = [returned |-> 0, waiters |-> 0]
  /\ waked = [a \in Addrs |-> FALSE]
  /\ budget \in Budgets
-----------------------------------------------------------------------------
(* FutexEmulation::Wait is called.                                         *)
CallWait(i, c) ==
  /\ pc[i] = "idle"
  /\ Spend("wait")
  /\ pc' = [pc EXCEPT ![i] = "enter"]
  /\ call' = [call EXCEPT ![i] = c]
  /\ result' = [result EXCEPT ![i] = "none"]
  /\ UNCHANGED <<memory, expired, waiting, interrupted, saved, wait_list,
                 mutex, flags, access, wake, waked>>

AddNode(list, i) == Append(list, i)

RemoveNode(list, i) ==
  LET k == CHOOSE k \in DOMAIN list : list[k] = i
  IN  SubSeq(list, 1, k - 1) \o SubSeq(list, k + 1, Len(list))

(* The value differs: Wait returns at once.                                *)
WaitNotEqual(i) ==
  /\ pc[i] = "enter"
  /\ CanLock(i)
  /\ memory[call[i].addr] # call[i].value
  /\ pc' = [pc EXCEPT ![i] = "idle"]
  /\ result' = [result EXCEPT ![i] = "not-equal"]
  /\ mutex' = None
  /\ LocalsDie(i)
  /\ UNCHANGED <<memory, waiting, interrupted, wait_list, flags, access, wake,
                 waked, budget>>

(* Mutant: the value was compared before mutex_ was taken.                 *)
MutWaitBegin(i) ==
  /\ pc[i] = "enter"
  /\ CanLock(i)
  /\ waiting' = [waiting EXCEPT ![i] = TRUE]
  /\ wait_list' = AddNode(wait_list, i)
  /\ saved' = [saved EXCEPT ![i] = interrupted[i]]
  /\ interrupted' = [interrupted EXCEPT ![i] = FALSE]
  /\ pc' = [pc EXCEPT ![i] = "unlocked"]
  /\ mutex' = None
  /\ UNCHANGED <<memory, call, expired, flags, access, result, wake, waked,
                 budget>>

(* The values are equal: the node is set up and appended to the list, and  *)
(* the loop starts; mutex_ is released.                                    *)
WaitBegin(i) ==
  /\ pc[i] = "enter"
  /\ CanLock(i)
  /\ memory[call[i].addr] = call[i].value
  /\ waiting' = [waiting EXCEPT ![i] = TRUE]
  /\ wait_list' = AddNode(wait_list, i)
  /\ saved' = [saved EXCEPT ![i] = interrupted[i]]
  /\ interrupted' = [interrupted EXCEPT ![i] = FALSE]
  /\ pc' = [pc EXCEPT ![i] = "unlocked"]
  /\ mutex' = None
  /\ UNCHANGED <<memory, call, expired, flags, access, result, wake, waked,
                 budget>>

(* if (interrupted): call HandleInterrupts, or go on to take mutex_.       *)
CheckInterrupted(i) ==
  /\ pc[i] = "unlocked"
  /\ pc' = [pc EXCEPT ![i] = IF saved[i] THEN "terminate" ELSE "relock"]
  /\ UNCHANGED <<memory, call, expired, waiting, interrupted, saved, wait_list,
                 mutex, flags, access, result, wake, waked, budget>>

(* CheckAndClearInterrupt(TERMINATE_EXECUTION) in HandleInterrupts; the    *)
(* flags behind it stay set when it returns the exception.                 *)
HandleTerminate(i) ==
  /\ pc[i] = "terminate"
  /\ ~access[i]
  /\ pc' = [pc EXCEPT ![i] = IF "TERMINATE_EXECUTION" \in flags[i]
                             THEN "exception" ELSE "api"]
  /\ flags' = [flags EXCEPT ![i] = @ \ {"TERMINATE_EXECUTION"}]
  /\ UNCHANGED <<memory, call, expired, waiting, interrupted, saved, wait_list,
                 mutex, access, result, wake, waked, budget>>

HandleApi(i) ==
  /\ pc[i] = "api"
  /\ ~access[i]
  /\ pc' = [pc EXCEPT ![i] = "relock"]
  /\ flags' = [flags EXCEPT ![i] = @ \ {"API_INTERRUPT"}]
  /\ UNCHANGED <<memory, call, expired, waiting, interrupted, saved, wait_list,
                 mutex, access, result, wake, waked, budget>>

(* The start of an iteration, with mutex_ held: after a wakeup, or because *)
(* of continue.                                                            *)
Iterate(i) ==
  /\ saved' = [saved EXCEPT ![i] = interrupted[i]]
  /\ interrupted' = [interrupted EXCEPT ![i] = FALSE]
  /\ pc' = [pc EXCEPT ![i] = "unlocked"]
  /\ mutex' = None
  /\ UNCHANGED <<memory, call, expired, waiting, wait_list, flags, access,
                 result, wake, waked, budget>>

(* Mutant: mutex_ is kept over HandleInterrupts.                           *)
MutWakesUp(i) ==
  /\ pc[i] = "top"
  /\ CanLock(i)
  /\ saved' = [saved EXCEPT ![i] = interrupted[i]]
  /\ interrupted' = [interrupted EXCEPT ![i] = FALSE]
  /\ pc' = [pc EXCEPT ![i] = "unlocked"]
  /\ mutex' = IF interrupted[i] THEN i ELSE None
  /\ UNCHANGED <<memory, call, expired, waiting, wait_list, flags,
                 access, result, wake, waked, budget>>

WakesUp(i) == pc[i] = "top" /\ CanLock(i) /\ Iterate(i)

(* Mutant: the node stays in the list.                                     *)
MutReturn(i, r) ==
  /\ waiting' = [waiting EXCEPT ![i] = FALSE]
  /\ result' = [result EXCEPT ![i] = r]
  /\ pc' = [pc EXCEPT ![i] = "idle"]
  /\ mutex' = None
  /\ LocalsDie(i)
  /\ UNCHANGED <<memory, interrupted, wait_list, flags, access, wake, waked,
                 budget>>

(* Leaving the loop, with mutex_ held: the node goes out of the list.      *)
Return(i, r) ==
  /\ wait_list' = RemoveNode(wait_list, i)
  /\ waiting' = [waiting EXCEPT ![i] = FALSE]
  /\ result' = [result EXCEPT ![i] = r]
  /\ pc' = [pc EXCEPT ![i] = "idle"]
  /\ mutex' = None
  /\ LocalsDie(i)
  /\ UNCHANGED <<memory, interrupted, flags, access, wake, waked, budget>>

ReturnException(i) ==
  pc[i] = "exception" /\ CanLock(i) /\ Return(i, "exception")

Relock(i) == pc[i] = "relock" /\ CanLock(i)

(* An interrupt came while mutex_ was released: do not wait yet.           *)
Continue(i) == Relock(i) /\ interrupted[i] /\ Iterate(i)

(* Mutant: waiting_ is not looked at when the thread has been woken up.    *)
MutReturnOk(i) ==
  Relock(i) /\ ~interrupted[i] /\ ~waiting[i] /\ expired[i] /\ Return(i, "ok")

ReturnOk(i) ==
  Relock(i) /\ ~interrupted[i] /\ ~waiting[i] /\ Return(i, "ok")

ReturnTimedOut(i) ==
  /\ Relock(i) /\ ~interrupted[i] /\ waiting[i]
  /\ expired[i]
  /\ Return(i, "timed-out")

Sleep(i) ==
  /\ pc' = [pc EXCEPT ![i] = "blocked"]
  /\ mutex' = None
  /\ UNCHANGED <<memory, call, expired, waiting, interrupted, saved,
                 wait_list, flags, access, result, wake, waked, budget>>

(* Nothing happened: Wait sleeps on cond_, which releases mutex_.          *)
Block(i) ==
  Relock(i) /\ ~interrupted[i] /\ waiting[i] /\ ~expired[i] /\ Sleep(i)

(* The time of a Wait with a timeout is over; WaitFor returns.             *)
Timeout(i) ==
  /\ InWait(i) /\ call[i].timed /\ ~expired[i]
  /\ expired' = [expired EXCEPT ![i] = TRUE]
  /\ pc' = [pc EXCEPT ![i] = IF @ = "blocked" THEN "top" ELSE @]
  /\ UNCHANGED <<memory, call, waiting, interrupted, saved, wait_list, mutex,
                 flags, access, result, wake, waked, budget>>

SpuriousWakeup(i) ==
  /\ pc[i] = "blocked"
  /\ Spend("spurious")
  /\ pc' = [pc EXCEPT ![i] = "top"]
  /\ UNCHANGED <<memory, call, expired, waiting, interrupted, saved, wait_list,
                 mutex, flags, access, result, wake, waked>>
-----------------------------------------------------------------------------
(* The positions in the list that match a, and NumWaitersForTesting(a).    *)
Matching(a) == {k \in DOMAIN wait_list : call[wait_list[k]].addr = a}
NumWaiters(a) == Cardinality({k \in Matching(a) : waiting[wait_list[k]]})

(* The nodes Wake visits at the first n of them.  A node that was woken    *)
(* before and has not left the list yet is one of them.                    *)
Targets(a, n) ==
  {wait_list[k] : k \in
     {m \in Matching(a) : Cardinality({j \in Matching(a) : j < m}) < n}}

(* FutexEmulation::Wake, by any thread.                                    *)
Wake(a, n) ==
  /\ CanLock(None)
  /\ Spend("wake")
  /\ waiting' = [i \in Isolates |-> waiting[i] /\ i \notin Targets(a, n)]
  /\ pc' = [i \in Isolates |-> IF i \in Targets(a, n) /\ pc[i] = "blocked"
                               THEN "top" ELSE pc[i]]
  /\ wake' = [returned |-> Cardinality(Targets(a, n)),
              waiters |-> Min({n, NumWaiters(a)})]
  /\ waked' = [waked EXCEPT ![a] = @ \/ n >= Cardinality(Isolates)]
  /\ UNCHANGED <<memory, call, expired, interrupted, saved, wait_list, mutex,
                 flags, access, result>>

(* Another thread's script writes to the array buffer.                     *)
Store(a, v) ==
  /\ memory[a] # v
  /\ Spend("store")
  /\ memory' = [memory EXCEPT ![a] = v]
  /\ waked' = [waked EXCEPT ![a] = FALSE]
  /\ UNCHANGED <<pc, call, expired, waiting, interrupted, saved, wait_list,
                 mutex, flags, access, result, wake>>

(* StackGuard::RequestInterrupt, by any thread: it takes ExecutionAccess,  *)
(* sets the flag, and calls NotifyWake with the lock held.                 *)
RequestInterrupt(i, f) ==
  /\ ~access[i]
  /\ Spend("request")
  /\ access' = [access EXCEPT ![i] = TRUE]
  /\ flags' = [flags EXCEPT ![i] = @ \cup {f}]
  /\ UNCHANGED <<memory, pc, call, expired, waiting, interrupted, saved,
                 wait_list, mutex, result, wake, waked>>

(* FutexWaitListNode::NotifyWake, and the release of ExecutionAccess.      *)
NotifyWake(i) ==
  /\ access[i]
  /\ CanLock(None)
  /\ interrupted' = [interrupted EXCEPT ![i] = @ \/ waiting[i]]
  /\ pc' = [pc EXCEPT ![i] = IF waiting[i] /\ @ = "blocked" THEN "top" ELSE @]
  /\ access' = [access EXCEPT ![i] = FALSE]
  /\ UNCHANGED <<memory, call, expired, waiting, saved, wait_list, mutex, flags,
                 result, wake, waked, budget>>
-----------------------------------------------------------------------------
ThreadStep(i) ==
  \/ WaitNotEqual(i)
  \/ WaitBegin(i)
  \/ CheckInterrupted(i)
  \/ HandleTerminate(i)
  \/ HandleApi(i)
  \/ WakesUp(i)
  \/ ReturnException(i)
  \/ Continue(i)
  \/ ReturnOk(i)
  \/ ReturnTimedOut(i)
  \/ Block(i)

FutexNext ==
  \/ \E i \in Isolates :
       \/ \E c \in Calls : CallWait(i, c)
       \/ ThreadStep(i)
       \/ Timeout(i)
       \/ SpuriousWakeup(i)
       \/ \E f \in Flags : RequestInterrupt(i, f)
       \/ NotifyWake(i)
  \/ \E a \in Addrs, n \in WakeCounts : Wake(a, n)
  \/ \E a \in Addrs, v \in Values : Store(a, v)

FutexSpec == FutexInit /\ [][FutexNext]_futexVars

(* Threads that can get the locks they need go on.  Nobody is obliged to   *)
(* call Wake.                                                              *)
FairFutexSpec ==
  /\ FutexSpec
  /\ \A i \in Isolates : WF_futexVars(ThreadStep(i)) /\ WF_futexVars(NotifyWake(i))
-----------------------------------------------------------------------------
(* The list holds the node of each isolate that is in Wait, once: no node  *)
(* is left behind by a return through timeout, exception or wake.          *)
ListIsExact ==
  /\ IsInjective(wait_list)
  /\ Range(wait_list) = {i \in Isolates : InWait(i)}

(* A thread asleep on cond_ is still waiting and has no interrupt in its   *)
(* node: although Wait copies and clears interrupted_, and releases mutex_ *)
(* to handle interrupts, neither a Wake nor an interrupt that comes once   *)
(* the node is registered is slept over.  And "the initial check and the   *)
(* decision to wait happen atomically": after a store of another value and *)
(* a Wake of everybody, no thread goes on waiting for the old value.       *)
NothingIsSleptOver ==
  \A i \in Isolates :
    /\ pc[i] = "blocked" => waiting[i] /\ ~interrupted[i]
    /\ InWait(i) /\ waiting[i] /\ memory[call[i].addr] # call[i].value =>
         ~waked[call[i].addr]

(* What the comment in Wait says of an interrupt that comes before Wait    *)
(* takes mutex_: it is not dropped.  So no thread sleeps while an          *)
(* interrupt whose request is complete is pending.                         *)
NoInterruptDropped ==
  \A i \in Isolates : pc[i] = "blocked" /\ ~access[i] => flags[i] = {}

(* What futex-emulation.h says of Wake: its result is the number of        *)
(* waiters it woke.                                                        *)
WakeReturnsWoken == wake.returned = wake.waiters

(* The Wait of isolate i has a reason to return.                           *)
MustReturn(i) ==
  /\ InWait(i)
  /\ \/ expired[i]
     \/ ~waiting[i]
     \/ interrupted[i] /\ "TERMINATE_EXECUTION" \in flags[i]

(* A Wait that timed out, was woken, or was interrupted by a termination   *)
(* returns.                                                                *)
WaitEnds == \A i \in Isolates : MustReturn(i) ~> pc[i] = "idle"

(* RequestInterrupt returns: taking mutex_ under ExecutionAccess does not  *)
(* deadlock with HandleInterrupts, which takes ExecutionAccess.            *)
RequestReturns == \A i \in Isolates : access[i] ~> ~access[i]
=============================================================================
