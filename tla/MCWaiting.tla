------------------------------ MODULE MCWaiting -----------------------------
(* Instances for TLC of the components whose threads wait for each other's *)
(* signals: a behaviour is one of TaskQueue or one of FutexEmulation, and  *)
(* the other stays in its initial state.                                   *)
EXTENDS TaskQueue, FutexEmulation

CONSTANTS
  w1, w2, w3, t1, t2, t3, t4, i1, i2, a1

(* Two waits with a wake, a store and an interrupt; one wait with a        *)
(* spurious wakeup as well; and one that is interrupted again while it     *)
(* handles an interrupt.                                                   *)
Budget(waits, wakes, stores, requests, spurious) ==
  [wait |-> waits, wake |-> wakes, store |-> stores, request |-> requests,
   spurious |-> spurious]
MCBudgets ==
  {Budget(2, 1, 1, 1, 0), Budget(1, 1, 1, 1, 1), Budget(1, 1, 0, 2, 0)}

VARIABLE which

mcVars == <<which, vars, futexVars>>

MCInit ==
  /\ which \in {"queue", "futex"} /\ Init /\ FutexInit
  /\ which = "queue" => budget = Budget(2, 1, 1, 1, 0)

MCNext ==
  /\ UNCHANGED which
  /\ \/ which = "queue" /\ Next /\ UNCHANGED futexVars
     \/ which = "futex" /\ FutexNext /\ UNCHANGED vars

(* The fairness of the two specifications.                                 *)
MCFairSpec ==
  /\ MCInit /\ [][MCNext]_mcVars
  /\ \A w \in Workers : WF_vars(which = "queue" /\ Step(w))
  /\ \A i \in Isolates :
       /\ WF_futexVars(which = "futex" /\ ThreadStep(i))
       /\ WF_futexVars(which = "futex" /\ NotifyWake(i))
=============================================================================
