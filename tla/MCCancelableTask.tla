-------------------------- MODULE MCCancelableTask --------------------------
(* An instance of CancelableTask for TLC.                                  *)
EXTENDS CancelableTask

CONSTANTS t1, t2, t3
=============================================================================
