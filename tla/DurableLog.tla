------------------------------ MODULE DurableLog ------------------------------
(***************************************************************************)
(* What the audit sink promises of its events (audit/sink.ts: "never drops *)
(* events"; storage-chaos.test.ts: "preserve exactly-once delivery"): an   *)
(* event that was accepted waits until it is stored, and it is stored from *)
(* there and once, in batches of any size and in any order.                *)
(*                                                                         *)
(* Nothing of rings, queues, tasks or retries appears here: AuditSink      *)
(* describes those and is shown to implement this module.                  *)
(***************************************************************************)
EXTENDS Naturals

CONSTANT Events      (* numbered in the order in which they are written *)

VARIABLES accepted,  (* how many events were written                    *)
          waiting,
          copies     (* event -> how often the storage holds it         *)

vars == <<accepted, waiting, copies>>

Init ==
  /\ accepted = 0
  /\ waiting = {}
  /\ copies = [e \in Events |-> 0]

Accept ==
  /\ accepted' = accepted + 1
  /\ waiting' = waiting \cup {accepted'}
  /\ UNCHANGED copies

Store(batch) ==
  /\ batch \subseteq waiting
  /\ waiting' = waiting \ batch
  /\ copies' = [e \in Events |-> copies[e] + IF e \in batch THEN 1 ELSE 0]
  /\ UNCHANGED accepted

Next == Accept \/ \E batch \in SUBSET waiting : Store(batch)

Spec == Init /\ [][Next]_vars
===============================================================================
