---------------------------- MODULE UnboundQueue ----------------------------
(***************************************************************************)
(* The lock-free queue between one producer and one consumer               *)
(* (src/src/profiler/unbound-queue.h, unbound-queue-inl.h): a linked list  *)
(* from first_ to last_ in which divider_ separates the nodes the consumer *)
(* is done with from those that hold records.  Only the producer frees.    *)
(*                                                                         *)
(* Grain and memory as in LockedQueue.                                     *)
(***************************************************************************)
EXTENDS LinkedList

CONSTANTS
  Values, Nothing, Yes, No,
  Producers, Consumers,  \* the threads
  Producer, Consumer     \* the ones that use this queue

VARIABLES
  allocated, value, next, pc, node, result, destroyed, \* as in LockedQueue
  first, divider, last   \* first_, divider_, last_

vars == <<allocated, value, next, pc, node, result, destroyed, first, divider, last>>

Threads == Producers \cup Consumers

Go(t, where, n) ==
  /\ pc' = [pc EXCEPT ![t] = where]
  /\ node' = [node EXCEPT ![t] = n]

Init ==
  /\ \E dummy \in Nodes :
       allocated = {dummy} /\ first = dummy /\ divider = dummy /\ last = dummy
  /\ value = [n \in Nodes |-> Nothing]
  /\ next = [n \in Nodes |-> Null]
  /\ pc = [t \in Threads |-> "idle"]
  /\ node = [t \in Threads |-> Null]
  /\ result = [c \in Consumers |-> Nothing]
  /\ destroyed = FALSE
-----------------------------------------------------------------------------
(* Enqueue: the new node is hung behind the last one.                      *)
LinkNode(p, v) ==
  /\ pc[p] = "idle" /\ ~destroyed
  /\ \E n \in Nodes \ allocated :
       /\ allocated' = allocated \cup {n}
       /\ value' = [value EXCEPT ![n] = v]
       /\ next' = [next EXCEPT ![n] = Null, ![last] = n]
       /\ Go(p, "linked", n)
  /\ UNCHANGED <<result, destroyed, first, divider, last>>

(* Release_Store(&last_), which hands the record to the consumer.          *)
MoveLast(p) ==
  /\ pc[p] = "linked"
  /\ last' = node[p]
  /\ Go(p, "clean", Null)
  /\ UNCHANGED <<allocated, value, next, result, destroyed, first, divider>>

(* The loop that calls DeleteFirst up to divider_.                         *)
DeleteFirst(p) ==
  /\ pc[p] = "clean"
  /\ IF first = divider
     THEN Go(p, "idle", Null) /\ UNCHANGED <<allocated, first>>
     ELSE /\ allocated' = allocated \ {first}
          /\ first' = next[first]
          /\ UNCHANGED <<pc, node>>
  /\ UNCHANGED <<value, next, result, destroyed, divider, last>>

(* Dequeue and Peek: compare divider_ with last_, and read next.           *)
ReadNext(c, then) ==
  /\ pc[c] = "idle" /\ ~destroyed
  /\ IF divider = last
     THEN result' = [result EXCEPT ![c] = Nothing] /\ UNCHANGED <<pc, node>>
     ELSE Go(c, then, next[divider]) /\ UNCHANGED result
  /\ UNCHANGED <<allocated, value, next, destroyed, first, divider, last>>

(* Read the value; Dequeue then moves divider_.                            *)
ReadValue(c) ==
  /\ pc[c] \in {"dequeue", "peek"}
  /\ result' = [result EXCEPT ![c] = value[node[c]]]
  /\ divider' = IF pc[c] = "dequeue" THEN node[c] ELSE divider
  /\ Go(c, "idle", Null)
  /\ UNCHANGED <<allocated, value, next, destroyed, first, last>>

IsEmpty(c) ==
  /\ pc[c] = "idle" /\ ~destroyed
  /\ result' = [result EXCEPT ![c] = IF divider = last THEN Yes ELSE No]
  /\ UNCHANGED <<allocated, value, next, pc, node, destroyed, first, divider, last>>

List == {first} \cup Range(NodesAfter(next, first))

(* The destructor, when no operation is in progress.                       *)
Destroy ==
  /\ ~destroyed /\ \A t \in Threads : pc[t] = "idle"
  /\ destroyed' = TRUE
  /\ allocated' = allocated \ List
  /\ first' = Null
  /\ UNCHANGED <<value, next, pc, node, result, divider, last>>

Next ==
  \/ \E v \in Values : LinkNode(Producer, v)
  \/ MoveLast(Producer) \/ DeleteFirst(Producer)
  \/ ReadNext(Consumer, "dequeue") \/ ReadNext(Consumer, "peek")
  \/ ReadValue(Consumer) \/ IsEmpty(Consumer)
  \/ Destroy

Spec == Init /\ [][Next]_vars
-----------------------------------------------------------------------------
(* The nodes from first_ on are the allocated ones, and what an operation  *)
(* is about to use is one of them, although the producer frees nodes while *)
(* the consumer moves divider_ without a lock.                             *)
NodesAreManaged ==
  IF destroyed THEN allocated = {}
  ELSE /\ allocated = List
       /\ {divider, last} \subseteq allocated
       /\ \A t \in Threads : node[t] # Null => node[t] \in allocated

(* A record is in the queue when last_ has moved, until divider_ moves     *)
(* over it.                                                                *)
Handed ==
  LET after == NodesAfter(next, divider)
  IN  SubSeq(after, 1, IF pc[Producer] = "linked" THEN Len(after) - 1 ELSE Len(after))
Contents == IF destroyed THEN <<>> ELSE [i \in DOMAIN Handed |-> value[Handed[i]]]
=============================================================================
