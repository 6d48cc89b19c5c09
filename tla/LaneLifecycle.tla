---------------------------- MODULE LaneLifecycle ----------------------------
(***************************************************************************)
(* What the lane subsystem promises about one lane's state, whoever drives *)
(* it: it only moves along the transition table of lanes/state_machine.ts, *)
(* except that a lane that owned a worktree may be closed as an orphan.     *)
(* A closed lane stays closed.                                              *)
(***************************************************************************)
EXTENDS LaneTable

CONSTANT Lanes

VARIABLE state    (* lane -> its state, absent before it is registered *)

Init == state = [l \in Lanes |-> "absent"]

Register(l) ==
  /\ state[l] = "absent"
  /\ state' = [state EXCEPT ![l] = "new"]

Fire(l, event) ==
  \E to \in LaneState :
    /\ <<state[l], event, to>> \in Table
    /\ state' = [state EXCEPT ![l] = to]

CloseOrphans(S) ==
  /\ \A l \in S : state[l] \in Provisioned \cup {"closed"}
  /\ state' = [l \in Lanes |-> IF l \in S THEN "closed" ELSE state[l]]

Next ==
  \/ \E l \in Lanes : Register(l)
  \/ \E l \in Lanes, event \in LaneEvent : Fire(l, event)
  \/ \E S \in SUBSET Lanes : CloseOrphans(S)

Spec == Init /\ [][Next]_state

(* Closed is terminal.                                                      *)
ClosedIsFinal == [][\A l \in Lanes : state[l] = "closed" => state'[l] = "closed"]_state
===============================================================================
