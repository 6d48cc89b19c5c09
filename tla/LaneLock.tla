------------------------------- MODULE LaneLock -------------------------------
(***************************************************************************)
(* The per-lane async mutex withLaneLock of lanes/state_machine.ts.        *)
(*                                                                         *)
(* A module-level map laneLocks holds, per lane, the promise of the latest *)
(* call. A call replaces it by its own promise, awaits the one it found,   *)
(* runs its callback, and in a finally block resolves its promise and      *)
(* removes the map entry if that entry is still its own.                   *)
(*                                                                         *)
(* A promise is named by the call that created it. A resolved promise is   *)
(* the value Resolved, whoever created it: awaiting it only costs a        *)
(* microtask, so a call that finished may be reused for a later invocation.*)
(***************************************************************************)
EXTENDS Naturals, Sequences

CONSTANTS Calls,      (* invocations that can be pending at the same time *)
          Lanes,      (* lane identifiers                                 *)
          Resolved,   (* a promise that is already resolved               *)
          NoEntry     (* laneLocks has no entry for the lane              *)

ASSUME LockAssumption ==
  /\ Resolved \notin Calls
  /\ NoEntry \notin Calls

VARIABLES laneLocks,  (* lane -> the call whose promise is the map's entry *)
          prev,       (* call -> the promise it awaits                     *)
          phase,      (* call -> idle, waiting for prev, running fn        *)
          lane,       (* call -> the lane it asked for                     *)
          order       (* history: lane -> its pending calls, oldest first  *)

vars == <<laneLocks, prev, phase, lane, order>>

TypeOK ==
  /\ laneLocks \in [Lanes -> Calls \cup {NoEntry}]
  /\ prev \in [Calls -> Calls \cup {Resolved}]
  /\ phase \in [Calls -> {"idle", "waiting", "running"}]
  /\ lane \in [Calls -> Lanes]
  /\ order \in [Lanes -> Seq(Calls)]

Init ==
  /\ laneLocks = [l \in Lanes |-> NoEntry]
  /\ prev = [c \in Calls |-> Resolved]
  /\ phase = [c \in Calls |-> "idle"]
  /\ lane \in [Calls -> Lanes]
  /\ order = [l \in Lanes |-> <<>>]

(* Fault: no resolved promise stands in for a missing entry. *)
EntryOnly(l) == laneLocks[l]

(* prev = laneLocks.get(laneId) ?? Promise.resolve(); laneLocks.set(laneId, next) *)
EntryPromise(l) == IF laneLocks[l] = NoEntry THEN Resolved ELSE laneLocks[l]

Call(c, l) ==
  /\ phase[c] = "idle"
  /\ phase' = [phase EXCEPT ![c] = "waiting"]
  /\ lane' = [lane EXCEPT ![c] = l]
  /\ prev' = [prev EXCEPT ![c] = EntryPromise(l)]
  /\ laneLocks' = [laneLocks EXCEPT ![l] = c]
  /\ order' = [order EXCEPT ![l] = Append(@, c)]

(* The await on prev continues, and fn starts. *)
Run(c) ==
  /\ phase[c] = "waiting"
  /\ prev[c] = Resolved
  /\ phase' = [phase EXCEPT ![c] = "running"]
  /\ UNCHANGED <<laneLocks, prev, lane, order>>

(* Fault: the entry is removed whoever it belongs to. *)
DropAnyEntry(c) == [laneLocks EXCEPT ![lane[c]] = NoEntry]

(* laneLocks without c's own entry: the cleanup "if this is the last in chain". *)
DropEntry(c) ==
  IF laneLocks[lane[c]] = c
    THEN [laneLocks EXCEPT ![lane[c]] = NoEntry]
    ELSE laneLocks

(* Fault: the promise is not resolved (as when fn throws and finally is missing). *)
SettleUnresolved(c) ==
  /\ phase[c] = "running"
  /\ phase' = [phase EXCEPT ![c] = "idle"]
  /\ laneLocks' = DropEntry(c)
  /\ order' = [order EXCEPT ![lane[c]] = Tail(@)]
  /\ UNCHANGED <<prev, lane>>

(* fn settled, with a value or an exception: the finally block. *)
Settle(c) ==
  /\ phase[c] = "running"
  /\ phase' = [phase EXCEPT ![c] = "idle"]
  /\ prev' = [d \in Calls |-> IF prev[d] = c THEN Resolved ELSE prev[d]]
  /\ laneLocks' = DropEntry(c)
  /\ order' = [order EXCEPT ![lane[c]] = Tail(@)]
  /\ UNCHANGED lane

Next ==
  \/ \E c \in Calls, l \in Lanes : Call(c, l)
  \/ \E c \in Calls : Run(c)
  \/ \E c \in Calls : Settle(c)

Spec == Init /\ [][Next]_vars

(* The microtask queue resumes a call whose prev is resolved, and every    *)
(* callback the lane code passes settles.                                  *)
Fairness == \A c \in Calls : WF_vars(Run(c)) /\ WF_vars(Settle(c))

FairSpec == Spec /\ Fairness

-------------------------------------------------------------------------------
(* Two callbacks never run at the same time for one lane, although the map  *)
(* entry is deleted and recreated between bursts of calls.                  *)
MutualExclusion ==
  \A c, d \in Calls :
    phase[c] = "running" /\ phase[d] = "running" /\ lane[c] = lane[d] => c = d

(* The strengthening. order[l] lists exactly the pending calls of lane l,   *)
(* each awaits its predecessor's promise, the oldest a resolved one, and    *)
(* the map's entry is the youngest's promise.                               *)
EntryIsYoungest ==
  \A l \in Lanes :
    laneLocks[l] = IF Len(order[l]) = 0 THEN NoEntry ELSE order[l][Len(order[l])]

AwaitsPredecessor ==
  \A l \in Lanes : \A i \in 1..Len(order[l]) :
    /\ phase[order[l][i]] # "idle"
    /\ lane[order[l][i]] = l
    /\ prev[order[l][i]] = IF i = 1 THEN Resolved ELSE order[l][i - 1]

NoRepeats ==
  \A l \in Lanes : \A i, j \in 1..Len(order[l]) : order[l][i] = order[l][j] => i = j

PendingListed ==
  \A c \in Calls :
    IF phase[c] = "idle"
      THEN prev[c] = Resolved
      ELSE \E i \in 1..Len(order[lane[c]]) : order[lane[c]][i] = c

RunningIsOldest == \A c \in Calls : phase[c] = "running" => prev[c] = Resolved

ChainInv ==
  /\ EntryIsYoungest
  /\ AwaitsPredecessor
  /\ NoRepeats
  /\ PendingListed
  /\ RunningIsOldest

(* Calls on one lane run in the order they were made, one at a time: the    *)
(* promise chain implements the FIFO lock.                                  *)
Fifo == INSTANCE FifoMutex WITH
          queue <- order,
          inside <- {c \in Calls : phase[c] = "running"}

ImplementsFifoMutex == Fifo!Spec

(* No call is forgotten by the chain: each one eventually runs.             *)
EveryCallRuns == \A c \in Calls : phase[c] = "waiting" ~> phase[c] = "running"
===============================================================================
