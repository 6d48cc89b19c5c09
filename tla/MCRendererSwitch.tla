--------------------------- MODULE MCRendererSwitch ---------------------------
(* Two calls, of which the second may begin while the abandoned switch of    *)
(* the first still works, and one crash.                                     *)
EXTENDS RendererSwitch
===============================================================================
