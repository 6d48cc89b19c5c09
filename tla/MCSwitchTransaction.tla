------------------------- MODULE MCSwitchTransaction -------------------------
(* Switches to and fro between the two renderers without end, two terminal   *)
(* creations, and two exits of renderer processes.                           *)
EXTENDS SwitchTransaction
===============================================================================
