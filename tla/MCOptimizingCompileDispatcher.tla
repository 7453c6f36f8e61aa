------------------- MODULE MCOptimizingCompileDispatcher --------------------
(* An instance of OptimizingCompileDispatcher for TLC.                     *)
EXTENDS OptimizingCompileDispatcher

CONSTANTS j1, j2, j3, t1, t2, t3
=============================================================================
