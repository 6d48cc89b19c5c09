---------------------------- MODULE MCCheckpoints ----------------------------
(* One change of the sessions, one call, cleanup or read, one file operation *)
(* that fails or one death of the process, in any order: up to three         *)
(* versions of the sessions.                                                 *)
EXTENDS Checkpoints
===============================================================================
