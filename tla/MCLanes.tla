------------------------------- MODULE MCLanes -------------------------------
(* Two lanes a client can create and the directory of a lane of an earlier   *)
(* process, with room for one live lane at a time, so that the capacity is   *)
(* reached and lanes follow on closed ones.                                  *)
EXTENDS Lanes
===============================================================================
