------------------------------- MODULE MCHeap -------------------------------
(* Instances of the heap's components for TLC: a behaviour is one of the   *)
(* component that which names, and the others stay in their initial state. *)
EXTENDS MemoryReducer, PageParallelJob, Sweeper, TLC

CONSTANTS n1, o1  \* pages

MCPages == {n1, o1}
MCSpaces == <<"NEW_SPACE", "OLD_SPACE">>
MCHome == n1 :> MCSpaces[1] @@ o1 :> MCSpaces[2]

VARIABLE which

mcVars == <<which, vars, jobVars, sweeperVars>>

MCInit ==
  /\ which \in {"reducer", "job", "sweeper"} /\ Init /\ JobInit /\ SweeperInit
  /\ which # "sweeper" => FLAG_concurrent_sweeping
  /\ which # "reducer" => ~serializer_enabled

MCNext ==
  /\ UNCHANGED which
  /\ \/ which = "reducer" /\ Next /\ UNCHANGED <<jobVars, sweeperVars>>
     \/ which = "job" /\ JobNext /\ UNCHANGED <<vars, sweeperVars>>
     \/ which = "sweeper" /\ SweeperNext /\ UNCHANGED <<vars, jobVars>>

MCSpec == MCInit /\ [][MCNext]_mcVars

(* The fairness of the three specifications.                               *)
MCFairSpec ==
  /\ MCSpec
  /\ WF_vars(which = "reducer" /\ Tick)
  /\ WF_vars(which = "reducer" /\ RunTimerTask)
  /\ WF_vars(which = "reducer" /\ MarkingEnds)
  /\ WF_jobVars(MainStep)
  /\ \A t \in TaskIds : WF_jobVars(TaskStep(t))
  /\ WF_sweeperVars(CollectorStep)
  /\ \A t \in SweeperTasks : WF_sweeperVars(SweeperTaskStep(t))

(* The sweeper alone.                                                      *)
SweeperAloneSpec == MCInit /\ which = "sweeper" /\ [][MCNext]_mcVars
=============================================================================
