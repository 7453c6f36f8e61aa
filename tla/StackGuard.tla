----------------------------- MODULE StackGuard -----------------------------
(***************************************************************************)
(* The interrupts of a JavaScript thread (StackGuard in                    *)
(* src/src/execution.{h,cc}, PostponeInterruptsScope in isolate.{h,cc}).   *)
(*                                                                         *)
(* A request sets a flag and lowers the stack limit, so that the next      *)
(* stack check calls HandleInterrupts; scopes on the thread's stack hold   *)
(* back the flags of their mask.  Each method runs under ExecutionAccess   *)
(* and is here a function of thread_local_, a record of                    *)
(*   flags   interrupt_flags_;                                             *)
(*   scopes  the chain postpone_interrupts_, outermost first;              *)
(*   real    real_climit_ and real_jslimit_, which differ only on          *)
(*           simulators;                                                   *)
(*   limit   climit_ and jslimit_.                                         *)
(***************************************************************************)
EXTENDS Integers, Sequences

CONSTANTS
  kIllegalLimit, kInterruptLimit,
  NoLimit  \* 0, a stack limit that has not been stored

DebugFlags == {"DEBUGBREAK", "DEBUGCOMMAND"}

InterruptFlag == DebugFlags \cup
  {"TERMINATE_EXECUTION", "GC_REQUEST", "INSTALL_CODE", "API_INTERRUPT",
   "DEOPT_MARKED_ALLOCATION_SITES"}

set_interrupt_limits(tl) == [tl EXCEPT !.limit = kInterruptLimit]
reset_limits(tl) == [tl EXCEPT !.limit = tl.real]

(* ThreadLocal::Clear, and so a new ThreadLocal.                           *)
ClearedThreadLocal ==
  [flags |-> {}, scopes |-> <<>>, real |-> kIllegalLimit, limit |-> kIllegalLimit]

(* The flags are taken away, and the limits reset if none is left.         *)
Withdraw(tl, fs) ==
  LET rest == [tl EXCEPT !.flags = @ \ fs]
  IN  IF rest.flags = {} THEN reset_limits(rest) ELSE rest

PushPostponeInterruptsScope(tl, mask) ==
  [Withdraw(tl, mask) EXCEPT !.scopes =
     Append(@, [mask |-> mask, intercepted |-> tl.flags \cap mask])]

PopPostponeInterruptsScope(tl) ==
  LET top == tl.scopes[Len(tl.scopes)]
      released == [tl EXCEPT !.flags = @ \cup top.intercepted,
                             !.scopes = SubSeq(@, 1, Len(@) - 1)]
  IN  IF released.flags = {} THEN released ELSE set_interrupt_limits(released)

(* Mutant: the innermost scope that masks the flag takes it.               *)
MutTakes(scopes, i, flag) ==
  /\ flag \in scopes[i].mask
  /\ \A j \in i + 1 .. Len(scopes) : flag \notin scopes[j].mask

(* Intercept: the outermost scope that masks the flag takes it.            *)
Takes(scopes, i, flag) ==
  /\ flag \in scopes[i].mask
  /\ \A j \in 1 .. i - 1 : flag \notin scopes[j].mask

Intercept(scopes, flag) ==
  [i \in DOMAIN scopes |->
     IF Takes(scopes, i, flag)
     THEN [scopes[i] EXCEPT !.intercepted = @ \cup {flag}] ELSE scopes[i]]

RequestInterrupt(tl, flag) ==
  IF \E i \in DOMAIN tl.scopes : flag \in tl.scopes[i].mask
  THEN [tl EXCEPT !.scopes = Intercept(@, flag)]
  ELSE set_interrupt_limits([tl EXCEPT !.flags = @ \cup {flag}])

(* CheckAndClearInterrupt, the clearing.                                   *)
CheckAndClearInterrupt(tl, flag) == Withdraw(tl, {flag})

ClearInterrupt(tl, flag) ==
  Withdraw([tl EXCEPT !.scopes =
              [i \in DOMAIN tl.scopes |->
                 [tl.scopes[i] EXCEPT !.intercepted = @ \ {flag}]]],
           {flag})

SetStackLimit(tl, limit) ==
  [tl EXCEPT !.limit = IF @ = tl.real THEN limit ELSE @, !.real = limit]

(* ThreadLocal::Initialize and InitThread, on a thread whose stack         *)
(* suggests a limit and for which one may be stored.                       *)
InitThread(tl, suggested, stored) ==
  LET own == IF tl.real = kIllegalLimit
             THEN [tl EXCEPT !.real = suggested, !.limit = suggested] ELSE tl
      initialized == [own EXCEPT !.scopes = <<>>, !.flags = {}]
  IN  IF stored = NoLimit THEN initialized ELSE SetStackLimit(initialized, stored)
-----------------------------------------------------------------------------
(* All interrupts that are requested and not handled.                      *)
Pending(tl) ==
  tl.flags \cup UNION {tl.scopes[i].intercepted : i \in DOMAIN tl.scopes}

(* No active flag is masked by a scope that is open, and no scope holds a  *)
(* flag that an outer scope masks (this is the DCHECK of                   *)
(* PopPostponeInterruptsScope, for the scope and for those around it);     *)
(* the limits are lowered exactly when a flag is active, so that the stack *)
(* check neither misses an interrupt nor fires for nothing.                *)
WellGuarded(tl) ==
  /\ \A i \in DOMAIN tl.scopes :
       /\ tl.scopes[i].intercepted \subseteq tl.scopes[i].mask
       /\ tl.flags \cap tl.scopes[i].mask = {}
       /\ \A j \in 1 .. i - 1 :
            tl.scopes[i].intercepted \cap tl.scopes[j].mask = {}
  /\ tl.limit = kInterruptLimit <=> tl.flags # {}
=============================================================================
