------------------------- MODULE MCDefaultPlatform --------------------------
(* Instances of DefaultPlatform for TLC.                                   *)
EXTENDS DefaultPlatform

CONSTANTS w1, i1
=============================================================================
