---------------------------- MODULE DurableRegister ----------------------------
(***************************************************************************)
(* What the checkpoint file promises (recovery/checkpoint.ts): a register  *)
(* that a reader may look at between any two operations on the file        *)
(* system, and after any death of the process. A save shows at once and as *)
(* a whole; between saves the value stays; no save brings an older one     *)
(* back. Saves that meet each other or a cleanup disturb it, until a save  *)
(* that meets nothing has ended.                                           *)
(*                                                                         *)
(* States are numbered in the order of time. A death loses what was not    *)
(* saved and makes a state of its own, of the process that comes after; so *)
(* "older" compares when states were there, not what they hold.            *)
(*                                                                         *)
(* Nothing of renames, temp files, backups or crashes appears here:        *)
(* Checkpoints describes those and is shown to implement this module.      *)
(***************************************************************************)
EXTENDS Integers

CONSTANT None       (* nothing was saved; less than any state *)

VARIABLES state,    (* what is to be saved, by its number             *)
          value,    (* what a reader finds                            *)
          saved,    (* what the save that ended last was to store     *)
          calm

vars == <<state, value, saved, calm>>

Init ==
  /\ state = 0
  /\ value = None
  /\ saved = None
  /\ calm = TRUE

(* A change, or a death. *)
Change ==
  /\ state' = state + 1
  /\ UNCHANGED <<value, saved, calm>>

Save ==
  /\ calm' = TRUE
  /\ saved' \in 0..state
  /\ calm => saved' >= saved
  /\ value' = saved'
  /\ UNCHANGED state

Disturbed ==
  /\ calm' = FALSE
  /\ value' \in Int /\ saved' \in Int
  /\ UNCHANGED state

Next == Change \/ Save \/ Disturbed

Spec == Init /\ [][Next]_vars
===============================================================================
