----------------------- MODULE SamplingCircularQueue ------------------------
(***************************************************************************)
(* The ring between a signal handler and the thread that reads its samples *)
(* (src/src/profiler/circular-queue.h, circular-queue-inl.h).  Nothing but *)
(* the marker of an entry says whose it is; each side has its own          *)
(* position.  Records are written and read in place.                       *)
(***************************************************************************)
EXTENDS Integers, Sequences

CONSTANTS
  Length,   \* entries of the ring
  Nothing   \* NULL, and the contents of memory not written yet

VARIABLES
  buffer,      \* [Entries -> [marker, record]]
  enqueue_pos, \* enqueue_pos_
  dequeue_pos  \* dequeue_pos_

Entries == 0 .. Length - 1

Init ==
  /\ buffer = [e \in Entries |-> [marker |-> "kEmpty", record |-> Nothing]]
  /\ enqueue_pos = 0 /\ dequeue_pos = 0

Next(entry) == IF entry + 1 = Length THEN 0 ELSE entry + 1

(* StartEnqueue returns an entry, whose record is written.                 *)
StartEnqueue == buffer[enqueue_pos].marker = "kEmpty"

Write(record) ==
  /\ buffer' = [buffer EXCEPT ![enqueue_pos].record = record]
  /\ UNCHANGED <<enqueue_pos, dequeue_pos>>

FinishEnqueue ==
  /\ buffer' = [buffer EXCEPT ![enqueue_pos].marker = "kFull"]
  /\ enqueue_pos' = Next(enqueue_pos)
  /\ UNCHANGED dequeue_pos

(* Peek returns the record at dequeue_pos_, or NULL.                       *)
Peek ==
  IF buffer[dequeue_pos].marker = "kFull" THEN buffer[dequeue_pos].record
  ELSE Nothing

Remove ==
  /\ buffer' = [buffer EXCEPT ![dequeue_pos].marker = "kEmpty"]
  /\ dequeue_pos' = Next(dequeue_pos)
  /\ UNCHANGED enqueue_pos

(* The records that are full, in the order in which Peek will find them.   *)
Contents ==
  LET at(i) == IF dequeue_pos + i < Length THEN dequeue_pos + i
                                           ELSE dequeue_pos + i - Length
      full == {n \in 0 .. Length : \A i \in 0 .. n - 1 : buffer[at(i)].marker = "kFull"}
      count == CHOOSE n \in full : \A m \in full : m <= n
  IN  [i \in 1 .. count |-> buffer[at(i - 1)].record]
=============================================================================
