------------------------------ MODULE MCQueues ------------------------------
(* Instances of the queues between threads for TLC: a behaviour is one of  *)
(* LockedQueue, one of UnboundQueue, which share the variables for memory  *)
(* and threads, or one of the profiler with its ring.                      *)
EXTENDS LockedQueue, ProfilerEventsProcessor, TLC

CONSTANTS
  n1, n2, n3, n4, v1, v2, p1, p2, c1, c2

VARIABLES
  which, first, divider, last

ASSUME QueuesAssumption ==
  /\ Null \notin Threads /\ p1 \in Producers /\ c1 \in Consumers /\ p1 # c1

U == INSTANCE UnboundQueue WITH Producer <- p1, Consumer <- c1

unboundVars == <<first, divider, last>>
lockedVars == <<head, tail, head_mutex, tail_mutex>>
mcVars == <<which, vars, unboundVars, profilerVars>>

MCInit ==
  /\ which \in {"locked", "unbound", "profiler"} /\ ProfilerInit
  /\ IF which = "unbound"
     THEN /\ U!Init
          /\ head = Null /\ tail = Null /\ head_mutex = Null /\ tail_mutex = Null
     ELSE /\ Init
          /\ first = Null /\ divider = Null /\ last = Null

MCNext ==
  /\ UNCHANGED which
  /\ \/ which = "locked" /\ Next /\ UNCHANGED <<unboundVars, profilerVars>>
     \/ which = "unbound" /\ U!Next /\ UNCHANGED <<lockedVars, profilerVars>>
     \/ which = "profiler" /\ ProfilerNext /\ UNCHANGED <<vars, unboundVars>>

MCSpec == MCInit /\ [][MCNext]_mcVars

(* Nodes, records, producers and consumers are interchangeable.            *)
QueueSymmetry ==
  Permutations(Nodes) \cup Permutations(Values)
    \cup Permutations(Producers) \cup Permutations(Consumers)

(* The lists use no freed node and leak none.                              *)
QueueNodesAreManaged ==
  IF which = "unbound" THEN U!NodesAreManaged ELSE NodesAreManaged

(* What is in the queue, and what was last returned to each consumer.      *)
QueueContents ==
  CASE which = "locked" -> Contents
    [] which = "unbound" -> U!Contents
    [] which = "profiler" -> Ring!Contents
QueueResult ==
  IF which = "profiler"
  THEN [c \in Consumers |-> IF c = c1 /\ peeked # NoRecord THEN peeked ELSE Nothing]
  ELSE result

(* The list with its two locks, the list without a lock and the ring of    *)
(* samples each implement a first-in first-out queue, step by step.        *)
Abstract == INSTANCE FIFO WITH
  Values <- Values \cup 0 .. MaxCodeEvents, queue <- QueueContents, result <- QueueResult,
  closed <- destroyed
QueuesImplementFIFO == Abstract!FIFOSpec
=============================================================================
