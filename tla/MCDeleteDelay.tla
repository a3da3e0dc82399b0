---------------------------- MODULE MCDeleteDelay ---------------------------
(* Model-checking instances of DeleteDelay: half-second ticks, and the     *)
(* local time of a plugin at or west of Greenwich.                         *)
EXTENDS DeleteDelay

Utc  == 0
West == -6
=============================================================================
