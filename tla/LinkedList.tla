----------------------------- MODULE LinkedList -----------------------------
(* Singly linked lists of nodes, shared by the queues.                     *)
EXTENDS Integers, Sequences, FiniteSets, Functions

CONSTANTS
  Nodes,  \* the memory for nodes
  Null    \* nullptr

ASSUME NodesAssumption == IsFiniteSet(Nodes) /\ Null \notin Nodes

(* The nodes some node links to.                                           *)
Linked(nextOf) == Range(nextOf) \ {Null}

(* Each node of the list is the next of the one before it, the first that  *)
(* of the given node, and the last has no next: only a cycle is cut short, *)
(* at the number of nodes that are linked to.                              *)
Follows(nextOf, node, list) ==
  LET before(k) == IF k = 1 THEN node ELSE list[k - 1]
  IN  /\ \A k \in DOMAIN list : list[k] = nextOf[before(k)]
      /\ \/ nextOf[before(Len(list) + 1)] = Null
         \/ Len(list) = Cardinality(Linked(nextOf))

(* The nodes that follow a node, in order.                                 *)
NodesAfter(nextOf, node) ==
  CHOOSE list \in UNION {[1 .. n -> Linked(nextOf)] : n \in 0 .. Cardinality(Linked(nextOf))} :
    Follows(nextOf, node, list)
=============================================================================
