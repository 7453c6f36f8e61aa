------------------------------- MODULE FIFO ---------------------------------
(***************************************************************************)
(* What a queue between threads promises: every operation takes effect at  *)
(* one moment between its call and its return, in first-in first-out       *)
(* order.                                                                  *)
(***************************************************************************)
EXTENDS Sequences

CONSTANTS Values, Consumers, Nothing, Yes, No

VARIABLES
  queue,  \* Seq(Values)
  result, \* [Consumers -> ...]: what the last call of each consumer returned
  closed  \* the queue has been destroyed

Put(v) == queue' = Append(queue, v) /\ UNCHANGED <<result, closed>>

Answer(c, r) == result' = [result EXCEPT ![c] = r] /\ UNCHANGED closed

Get(c) ==
  \/ queue # <<>> /\ queue' = Tail(queue) /\ Answer(c, Head(queue))
  \/ queue = <<>> /\ Answer(c, Nothing) /\ UNCHANGED queue

Look(c) ==
  /\ Answer(c, IF queue = <<>> THEN Nothing ELSE Head(queue))
  /\ UNCHANGED queue

TestEmpty(c) == Answer(c, IF queue = <<>> THEN Yes ELSE No) /\ UNCHANGED queue

(* The destructor: nothing is done to the queue after it.                  *)
Close == queue' = <<>> /\ closed' = TRUE /\ UNCHANGED result

FIFOInit ==
  queue = <<>> /\ result = [c \in Consumers |-> Nothing] /\ closed = FALSE

FIFONext ==
  /\ ~closed
  /\ \/ \E v \in Values : Put(v)
     \/ \E c \in Consumers : Get(c) \/ Look(c) \/ TestEmpty(c)
     \/ Close

FIFOSpec == FIFOInit /\ [][FIFONext]_<<queue, result, closed>>
=============================================================================
