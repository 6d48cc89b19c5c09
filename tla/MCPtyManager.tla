----------------------------- MODULE MCPtyManager -----------------------------
(* Three PTYs, of which the registry holds one, terminations that overlap,   *)
(* and one crash of the runtime.                                             *)
EXTENDS PtyManager
===============================================================================
