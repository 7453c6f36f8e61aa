------------------------------ MODULE MCThreads -----------------------------
(* Instances of ThreadManager, TraceBuffer and TracingController for TLC:  *)
(* a behaviour is one of the component that which names, and the others    *)
(* stay in their initial state.                                            *)
EXTENDS ThreadManager, TracingController, TLC

VARIABLE which

mcVars == <<which, vars, bufferVars, controllerVars>>

MCInit ==
  which \in {"threads", "buffer", "controller"} /\ Init /\ BufferInit /\ ControllerInit

MCNext ==
  /\ UNCHANGED which
  /\ \/ which = "threads" /\ Next /\ UNCHANGED <<bufferVars, controllerVars>>
     \/ which = "buffer" /\ BufferNext /\ UNCHANGED <<vars, controllerVars>>
     \/ which = "controller" /\ ControllerNext /\ UNCHANGED <<vars, bufferVars>>

MCSpec == MCInit /\ [][MCNext]_mcVars

Symmetric == Permutations(Threads) \cup Permutations(Tracers)
=============================================================================
