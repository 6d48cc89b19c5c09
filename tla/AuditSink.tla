------------------------------- MODULE AuditSink -------------------------------
(***************************************************************************)
(* DefaultAuditSink (audit/sink.ts) and its ring (audit/ring-buffer.ts):   *)
(* events wait in a buffer, or in the overflow queue once the ring has     *)
(* evicted them, until a task of the persistence chain has stored them.    *)
(*                                                                         *)
(* Event n is the n-th written. Events enter the buffer, the ring and the  *)
(* overflow queue in this order, so sets of numbers stand for the arrays,  *)
(* and the ring is the last Capacity events. The storage either commits a  *)
(* batch or rejects it whole, as the transaction of sqlite-store.ts does;  *)
(* its answer comes later. Metrics and the in-memory records of append(),  *)
(* which storage never sees, are left out.                                 *)
(***************************************************************************)
EXTENDS Naturals, Sequences, FiniteSets

CONSTANTS Flushes,       (* calls of flush()                                *)
          None,          (* nobody awaits the task                          *)
          Capacity,      (* ringBufferCapacity                              *)
          MaxBuffer,     (* MAX_BUFFER_SIZE                                 *)
          MaxRetries,    (* MAX_RETRIES                                     *)
          MaxEvents,     (* bounds the events written                       *)
          MaxTasks,      (* bounds the tasks the timer may queue up behind  *)
          MaxFailures    (* bounds the batches that storage rejects         *)

ASSUME AuditAssumption ==
  /\ None \notin Flushes
  /\ Capacity \in Nat \ {0} /\ MaxBuffer \in Nat \ {0} /\ MaxRetries \in Nat \ {0}
  /\ MaxEvents \in Nat /\ MaxTasks \in Nat /\ MaxFailures \in Nat

Events == 1..MaxEvents

VARIABLES written,       (* how many events were written                    *)
          buffer,
          overflow,      (* overflowQueue                                   *)
          copies,        (* event -> how often the storage holds it         *)
          chain,         (* persistenceChain: the tasks not yet started     *)
          task,          (* the task that runs                              *)
          flush,         (* call -> where it stands                         *)
          failures,
          gaveUp         (* history: a task for the overflow queue threw    *)

vars == <<written, buffer, overflow, copies, chain, task, flush, failures, gaveUp>>

Task == [kind : {"batch", "overflow"}, by : Flushes \cup {None}]

Running ==
  [at : {"idle", "persist", "committed", "backoff"},
   kind : {"batch", "overflow"}, by : Flushes \cup {None},
   todo : SUBSET Events, tries : 0..(MaxRetries - 1)]

NoTask == [at |-> "idle", kind |-> "batch", by |-> None, todo |-> {}, tries |-> 0]

FlushState ==
  [at : {"called", "await", "overflowed", "batched", "failed", "backoff", "returned", "thrown"},
   tries : Nat,
   due : 0..MaxEvents]     (* history: the events written before the call *)

TypeOK ==
  /\ written \in 0..MaxEvents
  /\ buffer \subseteq Events
  /\ overflow \subseteq Events
  /\ copies \in [Events -> Nat]
  /\ chain \in Seq(Task)
  /\ task \in Running
  /\ flush \in [Flushes -> FlushState]
  /\ failures \in 0..MaxFailures
  /\ gaveUp \in BOOLEAN

Init ==
  /\ written = 0
  /\ buffer = {}
  /\ overflow = {}
  /\ copies = [e \in Events |-> 0]
  /\ chain = <<>>
  /\ task = NoTask
  /\ flush = [f \in Flushes |-> [at |-> "called", tries |-> 0, due |-> 0]]
  /\ failures = 0
  /\ gaveUp = FALSE

-------------------------------------------------------------------------------
(* write *)

(* AuditRingBuffer.push: what event number n evicts *)
Evicted(n) == {e \in Events : e + Capacity = n}

(* Fault: the ring evicts one push early. *)
MovedEarly(n) == IF n >= Capacity THEN {n - Capacity} ELSE {}

(* The evicted event, if it is not yet stored *)
Moved(n) == Evicted(n) \cap buffer

Queued(kind, by) == Append(chain, [kind |-> kind, by |-> by])

Write ==
  LET n == written + 1
      moved == Moved(n)
      left == (buffer \ Evicted(n)) \cup {n}
      queue == IF moved = {} THEN chain ELSE Queued("overflow", None)
  IN /\ n <= MaxEvents
     /\ written' = n
     /\ overflow' = overflow \cup moved
     /\ buffer' = left
     /\ chain' = IF Cardinality(left) < MaxBuffer THEN queue
                 ELSE Append(queue, [kind |-> "batch", by |-> None])
     /\ UNCHANGED <<copies, task, flush, failures, gaveUp>>

(* Fault: it waits for a full buffer. *)
TimerIfFull ==
  /\ Cardinality(buffer) >= MaxBuffer
  /\ Len(chain) < MaxTasks
  /\ chain' = Queued("batch", None)
  /\ UNCHANGED <<written, buffer, overflow, copies, task, flush, failures, gaveUp>>

(* startPeriodicFlush: persistWithRetry, which returns if the buffer is empty *)
Timer ==
  /\ buffer # {}
  /\ Len(chain) < MaxTasks
  /\ chain' = Queued("batch", None)
  /\ UNCHANGED <<written, buffer, overflow, copies, task, flush, failures, gaveUp>>

-------------------------------------------------------------------------------
(* The tasks of persistWithRetry and persistOverflow, one after the other *)

(* The events that the task's next attempt is to store *)
Snapshot(kind) == IF kind = "batch" THEN buffer ELSE overflow

(* Whoever awaits the task learns how it ended. *)
Tells(by, outcome) ==
  flush' = [f \in Flushes |-> IF f = by THEN [flush[f] EXCEPT !.at = outcome] ELSE flush[f]]

TaskStarts ==
  LET next == Head(chain)
  IN /\ task.at = "idle" /\ chain # <<>>
     /\ chain' = Tail(chain)
     /\ IF next.kind = "overflow" /\ overflow = {}
          THEN Tells(next.by, "overflowed") /\ UNCHANGED task
          ELSE /\ task' = [at |-> "persist", kind |-> next.kind, by |-> next.by,
                           todo |-> Snapshot(next.kind), tries |-> 0]
               /\ UNCHANGED flush
     /\ UNCHANGED <<written, buffer, overflow, copies, failures, gaveUp>>

StorageCommits ==
  /\ task.at = "persist"
  /\ copies' = [e \in Events |-> copies[e] + IF e \in task.todo THEN 1 ELSE 0]
  /\ task' = [task EXCEPT !.at = "committed"]
  /\ UNCHANGED <<written, buffer, overflow, chain, flush, failures, gaveUp>>

(* Fault: only the buffer forgets what was stored. *)
AllOverflow(todo) == overflow

(* What is left of the overflow queue once a batch is stored: filter by id *)
Unstored(todo) == overflow \ todo

(* What is left of it once its own task has stored some: splice(0, n)      *)
Spliced(n) ==
  CHOOSE rest \in SUBSET overflow :
    /\ Cardinality(overflow \ rest) = n
    /\ \A d \in overflow \ rest, e \in rest : d < e

BatchStored ==
  /\ task.at = "committed" /\ task.kind = "batch"
  /\ buffer' = buffer \ task.todo
  /\ overflow' = Unstored(task.todo)
  /\ task' = NoTask
  /\ Tells(task.by, "batched")
  /\ UNCHANGED <<written, copies, chain, failures, gaveUp>>

(* The loop of persistOverflow goes on with what was evicted meanwhile. *)
OverflowStored ==
  LET rest == Spliced(Cardinality(task.todo))
  IN /\ task.at = "committed" /\ task.kind = "overflow"
     /\ overflow' = rest
     /\ IF rest = {}
          THEN task' = NoTask /\ Tells(task.by, "overflowed")
          ELSE /\ task' = [task EXCEPT !.at = "persist", !.todo = rest, !.tries = 0]
               /\ UNCHANGED flush
     /\ UNCHANGED <<written, buffer, copies, chain, failures, gaveUp>>

StorageRejects ==
  /\ task.at = "persist"
  /\ failures < MaxFailures
  /\ failures' = failures + 1
  /\ IF task.tries + 1 < MaxRetries
       THEN /\ task' = [task EXCEPT !.at = "backoff", !.tries = @ + 1]
            /\ UNCHANGED <<flush, gaveUp>>
       ELSE /\ task' = NoTask
            /\ Tells(task.by, "failed")
            /\ gaveUp' = (gaveUp \/ task.kind = "overflow")
  /\ UNCHANGED <<written, buffer, overflow, copies, chain>>

(* A batch is tried again as it was, the overflow queue as it is now. *)
TaskRetries ==
  /\ task.at = "backoff"
  /\ task' = [task EXCEPT !.at = "persist", !.todo = IF task.kind = "batch" THEN @ ELSE overflow]
  /\ UNCHANGED <<written, buffer, overflow, copies, chain, flush, failures, gaveUp>>

-------------------------------------------------------------------------------
(* flush() *)
(* Flush f, at record k, awaits a task, or returns. *)
Awaits(f, k, kind) ==
  /\ flush' = [flush EXCEPT ![f] = [k EXCEPT !.at = "await"]]
  /\ chain' = Queued(kind, f)

Returns(f, k) == flush' = [flush EXCEPT ![f] = [k EXCEPT !.at = "returned"]] /\ UNCHANGED chain

Batches(f, k) == IF buffer # {} THEN Awaits(f, k, "batch") ELSE Returns(f, k)

(* Fault: only the buffer is flushed. *)
AttemptsBatch(f, k) == Batches(f, k)

(* An iteration of its loop, up to the first await or the return *)
Attempts(f, k) == IF overflow # {} THEN Awaits(f, k, "overflow") ELSE Batches(f, k)

FlushCalled(f) ==
  /\ flush[f].at = "called"
  /\ Attempts(f, [flush[f] EXCEPT !.due = written])
  /\ UNCHANGED <<written, buffer, overflow, copies, task, failures, gaveUp>>

FlushGoesOn(f) ==
  /\ \/ flush[f].at = "overflowed" /\ Batches(f, flush[f])
     \/ flush[f].at = "batched" /\ Returns(f, flush[f])
     \/ flush[f].at = "backoff" /\ Attempts(f, flush[f])
  /\ UNCHANGED <<written, buffer, overflow, copies, task, failures, gaveUp>>

FlushFails(f) ==
  LET tries == flush[f].tries + 1
  IN /\ flush[f].at = "failed"
     /\ flush' = [flush EXCEPT ![f].tries = tries,
                               ![f].at = IF tries >= MaxRetries THEN "thrown" ELSE "backoff"]
     /\ UNCHANGED <<written, buffer, overflow, copies, chain, task, failures, gaveUp>>

-------------------------------------------------------------------------------
TaskGoesOn == TaskStarts \/ StorageCommits \/ BatchStored \/ OverflowStored \/ TaskRetries

Next ==
  \/ Write
  \/ Timer
  \/ TaskGoesOn
  \/ StorageRejects
  \/ \E f \in Flushes : FlushCalled(f) \/ FlushGoesOn(f) \/ FlushFails(f)

Spec == Init /\ [][Next]_vars

(* The timer fires, sleeps end, and storage answers; it rejects no more than *)
(* MaxFailures batches, which is an assumption.                              *)
Fairness == WF_vars(Timer) /\ WF_vars(TaskGoesOn)

FairSpec == Spec /\ Fairness

-------------------------------------------------------------------------------
(* The events that wait, but for a batch whose commit is not acknowledged.   *)
Outstanding == {e \in buffer \cup overflow : copies[e] = 0}

Log == INSTANCE DurableLog WITH accepted <- written, waiting <- Outstanding

(* The sink is a durable log: wherever evictions, batches, retries and       *)
(* overlapping flushes move an event, it waits until it is stored, and it is *)
(* stored once.                                                              *)
ImplementsDurableLog == Log!Spec

(* An event that was written is stored or still waits for it, whatever the   *)
(* ring evicts and the storage rejects: "never drops events" (sink.ts:34).   *)
NothingDropped ==
  \A e \in 1..written : copies[e] = 0 => e \in buffer \/ e \in overflow

(* No event is stored twice, though one may move from the buffer to the      *)
(* overflow queue while a batch that holds it is being stored, and either is *)
(* retried (storage-chaos.test.ts: "preserve exactly-once delivery").        *)
StoredOnce == \A e \in Events : copies[e] <= 1

(* When flush returns, all that was written before its call is stored, but   *)
(* for what the ring has evicted since: an event that has moved when flush   *)
(* is done with the overflow queue waits for the task that its move queued.  *)
FlushPersists ==
  \A f \in Flushes : flush[f].at = "returned" =>
    \A e \in 1..flush[f].due :
      copies[e] > 0 \/ (e + Capacity > flush[f].due /\ e + Capacity <= written)

(* Every event is stored in the end if storage recovers, unless a task for   *)
(* the overflow queue has used up its retries.                               *)
Delivered == \A e \in Events : (e <= written) ~> (copies[e] > 0 \/ gaveUp)

(* "guarantees delivery" (sink.ts:34). It fails: the timer's persistWithRetry *)
(* stores the buffer only, and nobody tries the overflow queue again.        *)
GuaranteesDelivery == \A e \in Events : (e <= written) ~> (copies[e] > 0)
===============================================================================
