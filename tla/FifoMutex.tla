------------------------------ MODULE FifoMutex ------------------------------
(***************************************************************************)
(* What withLaneLock (lanes/state_machine.ts) promises: operations on one  *)
(* lane run one at a time, in the order in which they were asked for, and   *)
(* operations on different lanes do not wait for each other.                *)
(*                                                                         *)
(* Nothing of promises or maps appears here: LaneLock describes those and   *)
(* is shown to implement this module.                                      *)
(***************************************************************************)
EXTENDS Sequences

CONSTANTS Calls,    (* pending invocations of withLaneLock          *)
          Lanes     (* lane identifiers, the keys of the lock       *)

VARIABLES queue,    (* per lane, the calls that asked, oldest first *)
          inside    (* the calls whose critical section is running  *)

vars == <<queue, inside>>

Init ==
  /\ queue = [l \in Lanes |-> <<>>]
  /\ inside = {}

Ask(c, l) ==
  /\ \A k \in Lanes : \A i \in DOMAIN queue[k] : queue[k][i] # c
  /\ queue' = [queue EXCEPT ![l] = Append(@, c)]
  /\ UNCHANGED inside

Start(c, l) ==
  /\ queue[l] # <<>>
  /\ Head(queue[l]) = c
  /\ c \notin inside
  /\ inside' = inside \cup {c}
  /\ UNCHANGED queue

Finish(c, l) ==
  /\ queue[l] # <<>>
  /\ Head(queue[l]) = c
  /\ c \in inside
  /\ queue' = [queue EXCEPT ![l] = Tail(@)]
  /\ inside' = inside \ {c}

Next == \E c \in Calls, l \in Lanes : Ask(c, l) \/ Start(c, l) \/ Finish(c, l)

Spec == Init /\ [][Next]_vars
=============================================================================
