----------------------------- MODULE MCRemediation -----------------------------
(* Two orphans, each suggested up to twice, two overlapping calls, and one   *)
(* restart at any time. The clock reaches the end of a cooldown.             *)
EXTENDS Remediation, TLC

Symmetry == Permutations(Resources) \cup Permutations(Calls)
===============================================================================
