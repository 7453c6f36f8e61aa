---------------------------- MODULE LockedQueue -----------------------------
(***************************************************************************)
(* The two-lock queue (src/src/locked-queue.h, locked-queue-inl.h): a      *)
(* linked list that starts with a dummy node, whose head and tail have a   *)
(* lock each, so that one thread may enqueue while another dequeues.       *)
(*                                                                         *)
(* Grain: one access to shared memory per step.  A lock is taken with the  *)
(* first access it protects and released with the last.  Freed nodes are   *)
(* allocated again, as an allocator does.                                  *)
(***************************************************************************)
EXTENDS LinkedList

CONSTANTS
  Values,    \* the records
  Producers, Consumers, \* threads that enqueue, and that do the rest
  Nothing,   \* Dequeue or Peek returned false
  Yes, No    \* what IsEmpty returned

VARIABLES
  allocated,   \* the nodes that are allocated
  value, next, \* [Nodes -> ...]: the fields of the nodes
  head, tail,  \* head_, tail_
  head_mutex, tail_mutex, \* the thread that holds the lock, or Null
  pc,          \* [Producers \cup Consumers -> ThreadPc]
  node,        \* the local node of each thread: n, next_node or old_head
  result,      \* [Consumers -> ...]: what the last call returned
  destroyed    \* the destructor has run

nodeVars == <<allocated, value, next>>
vars == <<nodeVars, head, tail, head_mutex, tail_mutex, pc, node, result,
          destroyed>>

Threads == Producers \cup Consumers

(* "linking": the new node is ready; "linked": it is in the list, and      *)
(* tail_ is to be moved, with tail_mutex_ held; "dequeue", "peek":         *)
(* next_node is read, with head_mutex_ held; "delete": old_head is out of  *)
(* the list and to be freed.                                               *)
ThreadPc == {"idle", "linking", "linked", "dequeue", "peek", "delete"}

Go(t, where, n) ==
  /\ pc' = [pc EXCEPT ![t] = where]
  /\ node' = [node EXCEPT ![t] = n]

Init ==
  /\ \E dummy \in Nodes : allocated = {dummy} /\ head = dummy /\ tail = dummy
  /\ value = [n \in Nodes |-> Nothing]
  /\ next = [n \in Nodes |-> Null]
  /\ head_mutex = Null /\ tail_mutex = Null
  /\ pc = [t \in Threads |-> "idle"]
  /\ node = [t \in Threads |-> Null]
  /\ result = [c \in Consumers |-> Nothing]
  /\ destroyed = FALSE
-----------------------------------------------------------------------------
(* Enqueue: new Node() and its value.                                      *)
NewNode(p, v) ==
  /\ pc[p] = "idle" /\ ~destroyed
  /\ \E n \in Nodes \ allocated :
       /\ allocated' = allocated \cup {n}
       /\ value' = [value EXCEPT ![n] = v]
       /\ next' = [next EXCEPT ![n] = Null]
       /\ Go(p, "linking", n)
  /\ UNCHANGED <<head, tail, head_mutex, tail_mutex, result, destroyed>>

(* Take tail_mutex_, and tail_->next.SetValue(n).                          *)
Link(p) ==
  /\ pc[p] = "linking" /\ tail_mutex = Null
  /\ tail_mutex' = p
  /\ next' = [next EXCEPT ![tail] = node[p]]
  /\ Go(p, "linked", node[p])
  /\ UNCHANGED <<allocated, value, head, tail, head_mutex, result, destroyed>>

(* tail_ = n, and release the lock.                                        *)
MoveTail(p) ==
  /\ pc[p] = "linked"
  /\ tail' = node[p]
  /\ tail_mutex' = Null
  /\ Go(p, "idle", Null)
  /\ UNCHANGED <<nodeVars, head, head_mutex, result, destroyed>>
-----------------------------------------------------------------------------
(* Mutant: head_mutex_ is not taken.                                       *)
MutReadNext(c, then) ==
  /\ pc[c] = "idle" /\ ~destroyed
  /\ IF next[head] = Null
     THEN /\ result' = [result EXCEPT ![c] = Nothing]
          /\ UNCHANGED <<pc, node>>
     ELSE Go(c, then, next[head]) /\ UNCHANGED result
  /\ UNCHANGED <<nodeVars, head, tail, head_mutex, tail_mutex, destroyed>>

(* Dequeue and Peek: take head_mutex_ and read head_->next; they return    *)
(* false at once if there is none.                                         *)
ReadNext(c, then) ==
  /\ pc[c] = "idle" /\ head_mutex = Null /\ ~destroyed
  /\ IF next[head] = Null
     THEN /\ result' = [result EXCEPT ![c] = Nothing]
          /\ UNCHANGED <<head_mutex, pc, node>>
     ELSE head_mutex' = c /\ Go(c, then, next[head]) /\ UNCHANGED result
  /\ UNCHANGED <<nodeVars, head, tail, tail_mutex, destroyed>>

(* Mutant: the old head is not deleted.                                    *)
MutMoveHead(c) ==
  /\ pc[c] = "dequeue"
  /\ result' = [result EXCEPT ![c] = value[node[c]]]
  /\ head' = node[c]
  /\ head_mutex' = Null
  /\ Go(c, "idle", Null)
  /\ UNCHANGED <<nodeVars, tail, tail_mutex, destroyed>>

(* Dequeue: read the value, move head_, release the lock; old_head is the  *)
(* node to delete.                                                         *)
MoveHead(c) ==
  /\ pc[c] = "dequeue"
  /\ result' = [result EXCEPT ![c] = value[node[c]]]
  /\ head' = node[c]
  /\ head_mutex' = Null
  /\ Go(c, "delete", head)
  /\ UNCHANGED <<nodeVars, tail, tail_mutex, destroyed>>

DeleteOldHead(c) ==
  /\ pc[c] = "delete"
  /\ allocated' = allocated \ {node[c]}
  /\ Go(c, "idle", Null)
  /\ UNCHANGED <<value, next, head, tail, head_mutex, tail_mutex, result,
                 destroyed>>

(* Peek: read the value and release the lock.                              *)
PeekValue(c) ==
  /\ pc[c] = "peek"
  /\ result' = [result EXCEPT ![c] = value[node[c]]]
  /\ head_mutex' = Null
  /\ Go(c, "idle", Null)
  /\ UNCHANGED <<nodeVars, head, tail, tail_mutex, destroyed>>

IsEmpty(c) ==
  /\ pc[c] = "idle" /\ head_mutex = Null /\ ~destroyed
  /\ result' = [result EXCEPT ![c] = IF next[head] = Null THEN Yes ELSE No]
  /\ UNCHANGED <<nodeVars, head, tail, head_mutex, tail_mutex, pc, node,
                 destroyed>>
-----------------------------------------------------------------------------
Chain == NodesAfter(next, head)

(* The destructor, when no operation is in progress, frees the list.       *)
Destroy ==
  /\ ~destroyed
  /\ \A t \in Threads : pc[t] = "idle"
  /\ destroyed' = TRUE
  /\ allocated' = allocated \ ({head} \cup Range(Chain))
  /\ UNCHANGED <<value, next, head, tail, head_mutex, tail_mutex, pc, node, result>>

ProducerStep(p) == Link(p) \/ MoveTail(p)
ConsumerStep(c) == MoveHead(c) \/ DeleteOldHead(c) \/ PeekValue(c)

Next ==
  \/ \E p \in Producers : ProducerStep(p) \/ \E v \in Values : NewNode(p, v)
  \/ \E c \in Consumers : \/ ConsumerStep(c)
                          \/ ReadNext(c, "dequeue") \/ ReadNext(c, "peek")
                          \/ IsEmpty(c)
  \/ Destroy

Spec == Init /\ [][Next]_vars
-----------------------------------------------------------------------------
(* No freed node is used: what an operation is about to read or write is   *)
(* allocated, although Dequeue frees the old head without the tail's lock  *)
(* and tail_ may still point to it.  Every allocated node is in the list,  *)
(* or is the new or the old node of one thread: nothing leaks, and the     *)
(* destructor frees all the rest.                                          *)
NodesAreManaged ==
  /\ ~destroyed =>
       /\ head \in allocated
       /\ tail_mutex = Null => tail \in allocated
       /\ \A t \in Threads : node[t] # Null => node[t] \in allocated
  /\ allocated =
       (IF destroyed THEN {} ELSE {head} \cup Range(Chain))
         \cup {node[t] : t \in {u \in Threads : pc[u] \in {"linking", "delete"}}}

(* Enqueue takes effect when the node is linked, Dequeue when head_ moves, *)
(* and a Dequeue that finds nothing when it reads head_->next.             *)
Contents ==
  IF destroyed THEN <<>> ELSE [i \in DOMAIN Chain |-> value[Chain[i]]]
=============================================================================
