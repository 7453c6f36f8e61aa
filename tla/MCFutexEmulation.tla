-------------------------- MODULE MCFutexEmulation --------------------------
(* Instances of FutexEmulation for TLC.                                    *)
EXTENDS FutexEmulation

CONSTANTS i1, i2, a1

Budget(waits, wakes, stores, requests, spurious) ==
  [wait |-> waits, wake |-> wakes, store |-> stores, request |-> requests,
   spurious |-> spurious]

(* Two waits and two wakes.                                                *)
WakeBudgets == {Budget(2, 2, 0, 0, 0)}

(* A wait and an interrupt.                                                *)
InterruptBudgets == {Budget(1, 0, 0, 1, 0)}
=============================================================================
