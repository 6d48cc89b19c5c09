------------------------------ MODULE MCParTasks ------------------------------
(* One lane bound once and one lane bound again and again, two processes,    *)
(* two overlapping terminations. MCParTasksRebind.cfg: a single lane whose   *)
(* client looks for a binding before it binds.                               *)
EXTENDS ParTasks
===============================================================================
