---------------------------- MODULE AuditSinkProofs ----------------------------
(***************************************************************************)
(* DefaultAuditSink never drops an event nor stores one twice, and flush   *)
(* stores what was there, for any capacity, buffer size, retries and       *)
(* failures, and any overlapping flushes.                                  *)
(*                                                                         *)
(* NothingDropped is inductive only with the knowledge that a stored batch *)
(* is what the task took (TaskInv); StoredOnce only because what waits is  *)
(* unstored but for a commit that is not yet acknowledged (Waiting); the   *)
(* removal by count only because the ring evicts in order (InRing).        *)
(***************************************************************************)
EXTENDS AuditSink, FiniteSetTheorems, TLAPS

(* The buffer holds events that are still in the ring, the overflow queue    *)
(* events that have left it.                                                 *)
InRing ==
  /\ \A e \in buffer : e <= written /\ written < e + Capacity
  /\ \A e \in overflow : e + Capacity <= written

(* Nothing that waits is stored, but for a batch whose commit is not yet     *)
(* acknowledged, and nothing is stored before it is written.                 *)
Waiting ==
  \A e \in Events :
    (e \in buffer \/ e \in overflow \/ written < e) =>
      copies[e] = 0 \/ (task.at = "committed" /\ e \in task.todo /\ copies[e] = 1)

(* The events a task is storing still wait; those of the overflow queue are  *)
(* its first ones.                                                           *)
TaskInv ==
  task.at # "idle" =>
    /\ task.todo \subseteq buffer \cup overflow
    /\ task.kind = "overflow" =>
         /\ task.todo \subseteq overflow
         /\ \A d \in task.todo, e \in overflow \ task.todo : d < e
    /\ task.at = "committed" => \A e \in task.todo : copies[e] = 1

(* The ring has evicted e since flush f was called. *)
Since(f, e) == e + Capacity > flush[f].due /\ e + Capacity <= written

(* What the ring has not evicted since flush f was called is stored or in S. *)
Reaches(f, S) == \A e \in 1..flush[f].due : copies[e] > 0 \/ Since(f, e) \/ e \in S

(* Where a flush stands tells what is stored. *)
FlushInv ==
  \A f \in Flushes :
    /\ flush[f].due <= written
    /\ flush[f].at = "overflowed" => Reaches(f, buffer)
    /\ flush[f].at \in {"batched", "returned"} => Reaches(f, {})

(* A task queued for a flush takes all that the flush still has to store. *)
AwaitInv ==
  /\ \A i \in 1..Len(chain) :
       chain[i].by # None =>
         /\ flush[chain[i].by].at # "called"
         /\ chain[i].kind = "batch" => Reaches(chain[i].by, buffer)
  /\ task.at # "idle" /\ task.by # None =>
         /\ flush[task.by].at # "called"
         /\ task.kind = "batch" => Reaches(task.by, task.todo)

(* The inductive invariant *)
IInv ==
  /\ TypeOK
  /\ InRing
  /\ Waiting
  /\ TaskInv
  /\ StoredOnce
  /\ NothingDropped
  /\ FlushInv
  /\ AwaitInv
USE AuditAssumption

-------------------------------------------------------------------------------
(* The overflow queue's task removes what it has stored: the events that     *)
(* joined the queue meanwhile are greater.                                   *)
LEMMA SplicedIsUnstored ==
  ASSUME TypeOK, TaskInv, task.at = "committed", task.kind = "overflow"
  PROVE  Spliced(Cardinality(task.todo)) = overflow \ task.todo
<1> DEFINE n == Cardinality(task.todo)
           First(rest) == /\ Cardinality(overflow \ rest) = n
                          /\ \A d \in overflow \ rest, e \in rest : d < e
           left == overflow \ task.todo
<1>1. /\ task.todo \subseteq overflow
      /\ \A d \in task.todo, e \in left : d < e
  BY DEF TaskInv
<1>2. First(left)
  <2>1. overflow \ left = task.todo
    BY <1>1
  <2> QED BY <1>1, <2>1
<1>3. ASSUME NEW rest \in SUBSET overflow, First(rest) PROVE rest = left
  <2> DEFINE gone == overflow \ rest
  <2>1. ASSUME NEW a \in gone \ task.todo, NEW t \in task.todo \ gone PROVE FALSE
    <3>1. a < t /\ t < a
      BY <1>1, <1>3
    <3>2. overflow \subseteq 1..MaxEvents /\ MaxEvents \in Nat
      BY DEF TypeOK, Events, AuditAssumption
    <3>3. a \in overflow /\ t \in overflow
      BY <1>1
    <3>4. a \in Nat /\ t \in Nat
      BY <3>2, <3>3
    <3> QED BY <3>1, <3>4
  <2>2. IsFiniteSet(overflow)
    <3>1. MaxEvents \in Int
      BY DEF AuditAssumption
    <3>2. IsFiniteSet(Events)
      BY <3>1, FS_Interval DEF Events
    <3> QED BY <3>2, FS_Subset DEF TypeOK
  <2>3. IsFiniteSet(gone) /\ IsFiniteSet(task.todo)
    BY <1>1, <2>2, FS_Subset
  <2>4. gone = task.todo
    <3>1. gone \subseteq task.todo \/ task.todo \subseteq gone
      BY <2>1
    <3> QED BY <1>3, <2>3, <3>1, FS_Subset
  <2>5. rest = overflow \ gone
    OBVIOUS
  <2> QED BY <2>4, <2>5
<1>4. Spliced(n) = CHOOSE rest \in SUBSET overflow : First(rest)
  BY DEF Spliced
<1> HIDE DEF First
<1>5. Spliced(n) \in SUBSET overflow /\ First(Spliced(n))
  <2>1. left \in SUBSET overflow
    OBVIOUS
  <2> QED BY <1>2, <1>4, <2>1
<1> QED BY <1>3, <1>5

-------------------------------------------------------------------------------
(* The tasks in the chain are well-formed. *)
LEMMA ChainTypes ==
  ASSUME TypeOK
  PROVE  \A i \in 1..Len(chain) : chain[i] \in Task /\ chain[i].by \in Flushes \cup {None}
<1>1. chain \in Seq(Task)
  BY DEF TypeOK
<1>2. \A i \in 1..Len(chain) : chain[i] \in Task
  BY <1>1
<1> QED BY <1>2 DEF Task

(* The record of a flush is well-formed. *)
LEMMA FlushTypes ==
  ASSUME TypeOK, NEW f \in Flushes
  PROVE  flush[f] \in FlushState /\ flush[f].due \in Nat /\ flush[f].due <= MaxEvents
<1>1. flush[f] \in FlushState
  BY DEF TypeOK
<1>2. flush[f].due \in 0..MaxEvents
  BY <1>1 DEF FlushState
<1> QED BY <1>1, <1>2 DEF AuditAssumption

(* A task is queued up behind the others. *)
LEMMA QueuedTasks ==
  ASSUME NEW c, c \in Seq(Task), NEW k \in {"batch", "overflow"}, NEW by \in Flushes \cup {None}
  PROVE  LET d == Append(c, [kind |-> k, by |-> by])
         IN /\ d \in Seq(Task)
            /\ \A i \in 1..Len(d) : \/ i \in 1..Len(c) /\ d[i] = c[i]
                                    \/ d[i] = [kind |-> k, by |-> by]
<1>1. [kind |-> k, by |-> by] \in Task
  BY DEF Task
<1> QED BY <1>1

-------------------------------------------------------------------------------
(* The initial state *)
LEMMA InitEstablishes == Init => IInv
<1> SUFFICES ASSUME Init PROVE IInv
  OBVIOUS
<1>1. TypeOK
  <2>1. task \in Running
    BY DEF Init, Running, NoTask, AuditAssumption
  <2>2. flush \in [Flushes -> FlushState]
    BY DEF Init, FlushState, AuditAssumption
  <2>3. copies \in [Events -> Nat] /\ chain \in Seq(Task)
    BY DEF Init
  <2>4. written \in 0..MaxEvents /\ failures \in 0..MaxFailures
    BY DEF Init, AuditAssumption
  <2>5. buffer \subseteq Events /\ overflow \subseteq Events /\ gaveUp \in BOOLEAN
    BY DEF Init
  <2> QED BY <2>1, <2>2, <2>3, <2>4, <2>5 DEF TypeOK
<1>2. InRing /\ Waiting /\ TaskInv /\ StoredOnce /\ NothingDropped
  BY DEF Init, InRing, Waiting, TaskInv, StoredOnce, NothingDropped, NoTask, Events, AuditAssumption
<1>3. FlushInv
  <2>1. \A f \in Flushes : flush[f].due = 0 /\ flush[f].at = "called"
    BY DEF Init
  <2>2. written = 0
    BY DEF Init
  <2> SUFFICES ASSUME NEW f \in Flushes
               PROVE  /\ flush[f].due <= written
                      /\ flush[f].at \notin {"overflowed", "batched", "returned"}
    BY DEF FlushInv
  <2> QED BY <2>1, <2>2
<1>4. AwaitInv
  <2>1. Len(chain) = 0 /\ task.at = "idle"
    BY DEF Init, NoTask
  <2> QED BY <2>1 DEF AwaitInv
<1> QED BY <1>1, <1>2, <1>3, <1>4 DEF IInv

-------------------------------------------------------------------------------
(* One lemma per action: it keeps the invariant. A write keeps it too, as    *)
(* what it evicts joins the overflow queue behind the others.                *)
LEMMA WriteKeeps == ASSUME IInv, Write PROVE IInv'
<1> DEFINE n == written + 1
<1>1. /\ Capacity \in Nat \ {0} /\ MaxEvents \in Nat
      /\ written \in Nat /\ n \in Events
      /\ buffer \subseteq Nat /\ overflow \subseteq Nat
  BY DEF IInv, TypeOK, Events, Write, AuditAssumption
<1>2. /\ written' = n
      /\ buffer' = {e \in buffer : e + Capacity # n} \cup {n}
      /\ overflow' = overflow \cup {e \in buffer : e + Capacity = n}
      /\ UNCHANGED <<copies, task, flush, failures, gaveUp>>
  BY DEF IInv, TypeOK, Write, Moved, Evicted
<1>3. /\ chain' \in Seq(Task)
      /\ \A i \in 1..Len(chain') :
           \/ i \in 1..Len(chain) /\ chain'[i] = chain[i]
           \/ chain'[i].by = None
  <2> DEFINE none(k) == [kind |-> k, by |-> None]
             c == IF Moved(n) = {} THEN chain ELSE Append(chain, none("overflow"))
  <2>1. chain \in Seq(Task)
    BY DEF IInv, TypeOK
  <2>2. /\ c \in Seq(Task)
        /\ \A i \in 1..Len(c) : \/ i \in 1..Len(chain) /\ c[i] = chain[i]
                                \/ c[i].by = None
    BY <2>1, QueuedTasks
  <2>3. chain' = c \/ chain' = Append(c, none("batch"))
    BY DEF Write, Queued
  <2> HIDE DEF c
  <2>4. CASE chain' = c
    BY <2>2, <2>4
  <2>5. CASE chain' = Append(c, none("batch"))
    BY <2>2, <2>5, QueuedTasks
  <2> QED BY <2>3, <2>4, <2>5
<1>4. TypeOK'
  <2>1. buffer' \subseteq Events /\ overflow' \subseteq Events
    BY <1>1, <1>2 DEF IInv, TypeOK
  <2>2. written' \in 0..MaxEvents
    BY <1>1, <1>2 DEF Events
  <2> QED BY <1>2, <1>3, <2>1, <2>2 DEF IInv, TypeOK
<1>5. InRing'
  BY <1>1, <1>2 DEF IInv, InRing
<1>6. Waiting' /\ StoredOnce'
  BY <1>1, <1>2 DEF IInv, Waiting, StoredOnce, Events
<1>7. TaskInv'
  <2> SUFFICES ASSUME task.at # "idle" PROVE TaskInv'
    BY <1>2 DEF TaskInv
  <2>1. task.todo \subseteq buffer' \cup overflow'
    BY <1>1, <1>2 DEF IInv, TaskInv
  <2>2. ASSUME task.kind = "overflow", NEW d \in task.todo, NEW e \in overflow' \ task.todo
        PROVE  d < e
    <3>1. d \in overflow /\ d + Capacity <= written /\ d \in Nat
      BY <1>1, <2>2 DEF IInv, TaskInv, InRing
    <3>2. CASE e \in overflow
      BY <2>2, <3>2 DEF IInv, TaskInv
    <3>3. CASE e \in Nat /\ e + Capacity = n
      BY <1>1, <3>1, <3>3
    <3> QED BY <1>1, <1>2, <2>2, <3>2, <3>3
  <2> QED BY <1>2, <2>1, <2>2 DEF IInv, TaskInv
<1>8. NothingDropped'
  BY <1>1, <1>2 DEF IInv, NothingDropped, Events, TypeOK
<1>9. ASSUME NEW f \in Flushes
      PROVE  /\ flush[f].due \in Nat /\ flush[f].due <= n
             /\ \A e \in 1..flush[f].due : Since(f, e) => Since(f, e)'
             /\ \A e \in buffer : e \in buffer' \/ Since(f, e)'
  <2>1. flush[f].due \in Nat /\ flush[f].due <= written
    BY FlushTypes DEF IInv, FlushInv
  <2> QED BY <1>1, <1>2, <2>1 DEF Since
<1>10. ASSUME NEW f \in Flushes
       PROVE  /\ Reaches(f, buffer) => Reaches(f, buffer)'
              /\ Reaches(f, {}) => Reaches(f, {})'
              /\ Reaches(f, task.todo) => Reaches(f, task.todo)'
  BY <1>2, <1>9 DEF Reaches
<1>11. FlushInv'
  BY <1>2, <1>9, <1>10 DEF IInv, FlushInv
<1>12. AwaitInv'
  <2>1. \A i \in 1..Len(chain) : chain[i].by \in Flushes \cup {None}
    BY ChainTypes DEF IInv
  <2>2. task.by \in Flushes \cup {None}
    BY DEF IInv, TypeOK, Running
  <2>3. ASSUME NEW i \in 1..Len(chain'), chain'[i].by # None
        PROVE  /\ flush'[chain'[i].by].at # "called"
               /\ chain'[i].kind = "batch" => Reaches(chain[i].by, buffer)' 
    BY <1>2, <1>3, <1>10, <2>1, <2>3 DEF IInv, AwaitInv
  <2> QED BY <1>2, <1>10, <2>2, <2>3 DEF IInv, AwaitInv
<1> QED BY <1>4, <1>5, <1>6, <1>7, <1>8, <1>11, <1>12 DEF IInv

(* What was written and waits in no overflow queue is stored or buffered. *)
LEMMA StoredOrBuffered ==
  ASSUME IInv, overflow = {}, NEW f \in Flushes
  PROVE  Reaches(f, buffer)
<1>1. written \in Nat /\ written <= MaxEvents /\ MaxEvents \in Nat /\ copies \in [Events -> Nat]
  BY DEF IInv, TypeOK, AuditAssumption
<1>2. flush[f].due \in Nat /\ flush[f].due <= written
  BY FlushTypes DEF IInv, FlushInv
<1>3. \A e \in 1..written : copies[e] \in Nat
  BY <1>1 DEF Events
<1> QED BY <1>1, <1>2, <1>3 DEF IInv, NothingDropped, Reaches

(* Steps that only queue a task and move a flush *)
LEMMA FlushStep ==
  ASSUME IInv, NEW f \in Flushes,
         UNCHANGED <<written, buffer, overflow, copies, task, failures, gaveUp>>,
         flush' \in [Flushes -> FlushState],
         \A g \in Flushes \ {f} : flush'[g] = flush[g],
         flush'[f].due <= written,
         flush[f].at = "called" \/ flush'[f].due = flush[f].due,
         flush'[f].at \notin {"called", "overflowed"},
         flush'[f].at \in {"batched", "returned"} => Reaches(f, {})',
         \/ chain' = chain
         \/ \E k \in {"batch", "overflow"} :
              /\ chain' = Append(chain, [kind |-> k, by |-> f])
              /\ k = "batch" => Reaches(f, buffer)'
  PROVE  IInv'
<1>1. chain \in Seq(Task)
  BY DEF IInv, TypeOK
<1>2. /\ chain' \in Seq(Task)
      /\ \A i \in 1..Len(chain') :
           \/ i \in 1..Len(chain) /\ chain'[i] = chain[i]
           \/ chain'[i].by = f /\ (chain'[i].kind = "batch" => Reaches(f, buffer)')
  <2>1. CASE chain' = chain
    BY <1>1, <2>1
  <2>2. CASE \E k \in {"batch", "overflow"} :
               /\ chain' = Append(chain, [kind |-> k, by |-> f])
               /\ k = "batch" => Reaches(f, buffer)'
    <3>1. PICK k \in {"batch", "overflow"} :
               /\ chain' = Append(chain, [kind |-> k, by |-> f])
               /\ k = "batch" => Reaches(f, buffer)'
      BY <2>2
    <3>2. /\ chain' \in Seq(Task)
          /\ \A i \in 1..Len(chain') : \/ i \in 1..Len(chain) /\ chain'[i] = chain[i]
                                      \/ chain'[i] = [kind |-> k, by |-> f]
      BY <1>1, <3>1, QueuedTasks
    <3> QED BY <3>1, <3>2
  <2> QED BY <2>1, <2>2
<1>3. TypeOK'
  BY <1>2 DEF IInv, TypeOK
<1>4. InRing' /\ Waiting' /\ TaskInv' /\ StoredOnce' /\ NothingDropped'
  BY DEF IInv, InRing, Waiting, TaskInv, StoredOnce, NothingDropped
<1>5. ASSUME NEW g \in Flushes, flush'[g].due = flush[g].due
      PROVE  /\ Reaches(g, buffer) => Reaches(g, buffer)'
             /\ Reaches(g, {}) => Reaches(g, {})'
             /\ Reaches(g, task.todo) => Reaches(g, task.todo)'
  BY <1>5 DEF Reaches, Since
<1>6. FlushInv'
  BY <1>5 DEF IInv, FlushInv
<1>7. AwaitInv'
  <2>1. ASSUME NEW i \in 1..Len(chain'), chain'[i].by # None
        PROVE  /\ flush'[chain'[i].by].at # "called"
               /\ chain'[i].kind = "batch" => Reaches(chain[i].by, buffer)'
    <3>1. CASE i \in 1..Len(chain) /\ chain'[i] = chain[i]
      <4>1. chain[i].by \in Flushes /\ flush[chain[i].by].at # "called"
        BY <2>1, <3>1, ChainTypes DEF IInv, AwaitInv
      <4>2. flush'[chain[i].by].due = flush[chain[i].by].due
        BY <4>1
      <4>3. chain[i].kind = "batch" => Reaches(chain[i].by, buffer)
        BY <2>1, <3>1 DEF IInv, AwaitInv
      <4>4. flush'[chain[i].by].at # "called"
        BY <4>1
      <4> QED BY <1>5, <3>1, <4>1, <4>2, <4>3, <4>4
    <3>2. CASE chain'[i].by = f /\ (chain'[i].kind = "batch" => Reaches(f, buffer)')
      BY <3>2
    <3> QED BY <1>2, <3>1, <3>2
  <2>2. ASSUME task.at # "idle", task.by # None
        PROVE  /\ flush'[task.by].at # "called"
               /\ task.kind = "batch" => Reaches(task.by, task.todo)'
    <3>1. task.by \in Flushes
      BY <2>2 DEF IInv, TypeOK, Running
    <3>2. /\ flush[task.by].at # "called"
          /\ task.kind = "batch" => Reaches(task.by, task.todo)
      BY <2>2 DEF IInv, AwaitInv
    <3> QED BY <1>5, <3>1, <3>2
  <2> QED BY <2>1, <2>2 DEF AwaitInv
<1> QED BY <1>3, <1>4, <1>6, <1>7 DEF IInv

(* The timer queues a task that nobody awaits. *)
LEMMA TimerKeeps == ASSUME IInv, Timer PROVE IInv'
<1>1. chain \in Seq(Task) /\ chain' = Append(chain, [kind |-> "batch", by |-> None])
  BY DEF IInv, TypeOK, Timer, Queued
<1>2. /\ chain' \in Seq(Task)
      /\ \A i \in 1..Len(chain') : \/ i \in 1..Len(chain) /\ chain'[i] = chain[i]
                                  \/ chain'[i] = [kind |-> "batch", by |-> None]
  BY <1>1, QueuedTasks
<1>3. UNCHANGED <<written, buffer, overflow, copies, task, flush, failures, gaveUp>>
  BY DEF Timer
<1>4. TypeOK'
  BY <1>2, <1>3 DEF IInv, TypeOK
<1>5. InRing' /\ Waiting' /\ TaskInv' /\ StoredOnce' /\ NothingDropped'
  BY <1>3 DEF IInv, InRing, Waiting, TaskInv, StoredOnce, NothingDropped
<1>6. \A g \in Flushes : /\ Reaches(g, buffer)' <=> Reaches(g, buffer)
                         /\ Reaches(g, {})' <=> Reaches(g, {})
                         /\ Reaches(g, task.todo)' <=> Reaches(g, task.todo)
  BY <1>3 DEF Reaches, Since
<1>7. FlushInv'
  BY <1>3, <1>6 DEF IInv, FlushInv
<1>8. AwaitInv'
  <2>1. ASSUME NEW i \in 1..Len(chain'), chain'[i].by # None
        PROVE  /\ flush'[chain'[i].by].at # "called"
               /\ chain'[i].kind = "batch" => Reaches(chain[i].by, buffer)'
    <3>1. i \in 1..Len(chain) /\ chain'[i] = chain[i]
      BY <1>2, <2>1
    <3>2. chain[i].by \in Flushes
      BY <2>1, <3>1, ChainTypes DEF IInv
    <3> QED BY <1>3, <1>6, <2>1, <3>1, <3>2 DEF IInv, AwaitInv
  <2>2. task.by \in Flushes \cup {None}
    BY DEF IInv, TypeOK, Running
  <2> QED BY <1>3, <1>6, <2>1, <2>2 DEF IInv, AwaitInv
<1> QED BY <1>4, <1>5, <1>7, <1>8 DEF IInv

(* A flush that is called queues a task, or finds nothing to store. *)
LEMMA FlushCalledKeeps == ASSUME IInv, NEW f \in Flushes, FlushCalled(f) PROVE IInv'
<1> DEFINE k == [flush[f] EXCEPT !.due = written]
           at(place) == flush' = [flush EXCEPT ![f] = [k EXCEPT !.at = place]]
           queues(kind) == chain' = Append(chain, [kind |-> kind, by |-> f])
<1>1. /\ UNCHANGED <<written, buffer, overflow, copies, task, failures, gaveUp>>
      /\ flush[f].at = "called"
      /\ \/ at("await") /\ queues("overflow")
         \/ at("await") /\ queues("batch") /\ overflow = {}
         \/ at("returned") /\ chain' = chain /\ overflow = {} /\ buffer = {}
  BY DEF FlushCalled, Attempts, Batches, Awaits, Returns, Queued
<1>2. flush[f] \in FlushState /\ written \in 0..MaxEvents /\ flush \in [Flushes -> FlushState]
  BY FlushTypes DEF IInv, TypeOK
<1>3. /\ k \in FlushState /\ k.due = written
      /\ \A place \in {"await", "returned"} :
           [k EXCEPT !.at = place] \in FlushState /\ [k EXCEPT !.at = place].at = place
              /\ [k EXCEPT !.at = place].due = written
  BY <1>2 DEF FlushState
<1> HIDE DEF k
<1>4. /\ flush' \in [Flushes -> FlushState]
      /\ \A g \in Flushes \ {f} : flush'[g] = flush[g]
      /\ flush'[f].due = written
      /\ flush'[f].at \in {"await", "returned"}
      /\ flush'[f].at = "returned" => overflow = {} /\ buffer = {}
  BY <1>1, <1>2, <1>3
<1>5. overflow = {} => Reaches(f, buffer)'
  <2> SUFFICES ASSUME overflow = {}, NEW e \in 1..written PROVE copies[e] > 0 \/ e \in buffer
    BY <1>1, <1>4 DEF Reaches
  <2>1. copies[e] \in Nat
    BY <1>2 DEF IInv, TypeOK, Events, AuditAssumption
  <2> QED BY <2>1 DEF IInv, NothingDropped
<1>6. overflow = {} /\ buffer = {} => Reaches(f, {})'
  BY <1>1, <1>5
<1>7. flush'[f].due <= written
  BY <1>2, <1>4
<1> QED BY <1>1, <1>4, <1>5, <1>6, <1>7, FlushStep

(* A flush goes on to the buffer, returns, or tries again. *)
LEMMA FlushGoesOnKeeps == ASSUME IInv, NEW f \in Flushes, FlushGoesOn(f) PROVE IInv'
<1> DEFINE at(place) == flush' = [flush EXCEPT ![f] = [flush[f] EXCEPT !.at = place]]
           queues(kind) == chain' = Append(chain, [kind |-> kind, by |-> f])
<1>1. UNCHANGED <<written, buffer, overflow, copies, task, failures, gaveUp>>
  BY DEF FlushGoesOn
<1>2. flush[f] \in FlushState /\ flush \in [Flushes -> FlushState] /\ flush[f].due <= written
  BY FlushTypes DEF IInv, TypeOK, FlushInv
<1>3. \A place \in {"await", "returned"} :
        /\ [flush[f] EXCEPT !.at = place] \in FlushState
        /\ [flush[f] EXCEPT !.at = place].at = place
        /\ [flush[f] EXCEPT !.at = place].due = flush[f].due
  BY <1>2 DEF FlushState
<1>4. \/ at("await") /\ queues("overflow")
      \/ at("await") /\ queues("batch") /\ Reaches(f, buffer)
      \/ at("returned") /\ chain' = chain /\ Reaches(f, {})
  <2>1. CASE flush[f].at = "overflowed" /\ Batches(f, flush[f])
    <3>1. Reaches(f, buffer)
      BY <2>1 DEF IInv, FlushInv
    <3>2. CASE buffer = {}
      BY <2>1, <3>1, <3>2 DEF Batches, Returns
    <3>3. CASE buffer # {}
      BY <2>1, <3>1, <3>3 DEF Batches, Awaits, Queued
    <3> QED BY <3>2, <3>3
  <2>2. CASE flush[f].at = "batched" /\ Returns(f, flush[f])
    BY <2>2 DEF IInv, FlushInv, Returns
  <2>3. CASE flush[f].at = "backoff" /\ Attempts(f, flush[f])
    <3>1. CASE overflow # {}
      BY <2>3, <3>1 DEF Attempts, Awaits, Queued
    <3>2. CASE overflow = {}
      <4>1. Reaches(f, buffer)
        BY <3>2, StoredOrBuffered
      <4>2. CASE buffer = {}
        BY <2>3, <3>2, <4>1, <4>2 DEF Attempts, Batches, Returns
      <4>3. CASE buffer # {}
        BY <2>3, <3>2, <4>1, <4>3 DEF Attempts, Batches, Awaits, Queued
      <4> QED BY <4>2, <4>3
    <3> QED BY <3>1, <3>2
  <2> QED BY <2>1, <2>2, <2>3 DEF FlushGoesOn
<1>5. /\ flush' \in [Flushes -> FlushState]
      /\ \A g \in Flushes \ {f} : flush'[g] = flush[g]
      /\ flush'[f].due = flush[f].due
      /\ flush'[f].at \in {"await", "returned"}
      /\ flush'[f].at = "returned" => Reaches(f, {})
  BY <1>2, <1>3, <1>4
<1>6. /\ Reaches(f, {}) => Reaches(f, {})'
      /\ Reaches(f, buffer) => Reaches(f, buffer)'
  BY <1>1, <1>5 DEF Reaches, Since
<1> QED BY <1>1, <1>2, <1>4, <1>5, <1>6, FlushStep

(* A flush counts a failed task. *)
LEMMA FlushFailsKeeps == ASSUME IInv, NEW f \in Flushes, FlushFails(f) PROVE IInv'
<1> DEFINE t == flush[f].tries + 1
           k == [flush[f] EXCEPT !.tries = t,
                                 !.at = IF t >= MaxRetries THEN "thrown" ELSE "backoff"]
<1>1. /\ UNCHANGED <<written, buffer, overflow, copies, chain, task, failures, gaveUp>>
      /\ flush' = [flush EXCEPT ![f] = k]
  BY DEF FlushFails
<1>2. flush[f] \in FlushState /\ flush \in [Flushes -> FlushState] /\ flush[f].due <= written
  BY FlushTypes DEF IInv, TypeOK, FlushInv
<1>3. k \in FlushState /\ k.due = flush[f].due /\ k.at \in {"thrown", "backoff"}
  <2>1. t \in Nat
    BY <1>2 DEF FlushState
  <2>2. PICK place \in {"thrown", "backoff"} : k = [flush[f] EXCEPT !.tries = t, !.at = place]
    OBVIOUS
  <2> HIDE DEF t, k
  <2> QED BY <1>2, <2>1, <2>2 DEF FlushState
<1> HIDE DEF k
<1>4. /\ flush' \in [Flushes -> FlushState]
      /\ \A g \in Flushes \ {f} : flush'[g] = flush[g]
      /\ flush'[f] = k
  BY <1>1, <1>2, <1>3
<1> QED BY <1>1, <1>2, <1>3, <1>4, FlushStep

-------------------------------------------------------------------------------
(* The one who awaits a task learns its outcome, the others nothing. *)
LEMMA Told ==
  ASSUME TypeOK, NEW by, NEW outcome \in {"overflowed", "batched", "failed"}, Tells(by, outcome)
  PROVE  /\ flush' \in [Flushes -> FlushState]
         /\ \A f \in Flushes : /\ flush'[f].due = flush[f].due
                               /\ flush'[f].at = IF f = by THEN outcome ELSE flush[f].at
<1>1. ASSUME NEW f \in Flushes
      PROVE  LET k == [flush[f] EXCEPT !.at = outcome]
             IN k \in FlushState /\ k.due = flush[f].due /\ k.at = outcome
  BY FlushTypes DEF FlushState
<1>2. flush \in [Flushes -> FlushState]
  BY DEF TypeOK
<1> QED BY <1>1, <1>2 DEF Tells

(* The next task of the chain takes its events. *)
LEMMA TaskStartsKeeps == ASSUME IInv, TaskStarts PROVE IInv'
<1> DEFINE next == Head(chain)
<1>1. /\ UNCHANGED <<written, buffer, overflow, copies, failures, gaveUp>>
      /\ task.at = "idle" /\ chain # <<>> /\ chain' = Tail(chain)
  BY DEF TaskStarts
<1>2. chain \in Seq(Task) /\ chain' \in Seq(Task) /\ next = chain[1] /\ 1 \in 1..Len(chain)
  BY <1>1 DEF IInv, TypeOK
<1>3. \A i \in 1..Len(chain') : i + 1 \in 1..Len(chain) /\ chain'[i] = chain[i + 1]
  BY <1>1, <1>2
<1>4. next \in Task /\ next.by \in Flushes \cup {None} /\ next.kind \in {"batch", "overflow"}
  BY <1>2, ChainTypes DEF IInv, Task
<1>5. next.by # None => /\ flush[next.by].at # "called"
                        /\ next.kind = "batch" => Reaches(next.by, buffer)
  BY <1>2 DEF IInv, AwaitInv
<1>6. \A i \in 1..Len(chain') :
        chain'[i].by # None => /\ chain'[i].by \in Flushes
                               /\ flush[chain'[i].by].at # "called"
                               /\ chain'[i].kind = "batch" => Reaches(chain'[i].by, buffer)
  BY <1>3, ChainTypes DEF IInv, AwaitInv
<1>7. InRing' /\ StoredOnce' /\ NothingDropped'
  BY <1>1 DEF IInv, InRing, StoredOnce, NothingDropped
<1>8. CASE next.kind = "overflow" /\ overflow = {}
  <2>1. Tells(next.by, "overflowed") /\ task' = task
    BY <1>8 DEF TaskStarts
  <2>2. /\ flush' \in [Flushes -> FlushState]
        /\ \A f \in Flushes : /\ flush'[f].due = flush[f].due
                              /\ flush'[f].at = IF f = next.by THEN "overflowed" ELSE flush[f].at
    BY <2>1, Told DEF IInv
  <2>3. \A f \in Flushes : /\ Reaches(f, buffer) /\ Reaches(f, buffer)'
                           /\ Reaches(f, {}) => Reaches(f, {})'
    <3>1. \A f \in Flushes : Reaches(f, buffer)
      BY <1>8, StoredOrBuffered
    <3> QED BY <1>1, <2>2, <3>1 DEF Reaches, Since
  <2>4. TypeOK'
    BY <1>1, <1>2, <2>1, <2>2 DEF IInv, TypeOK
  <2>5. Waiting' /\ TaskInv'
    BY <1>1, <2>1 DEF IInv, Waiting, TaskInv
  <2>6. FlushInv'
    BY <1>1, <2>2, <2>3 DEF IInv, FlushInv
  <2>7. AwaitInv'
    BY <1>1, <1>6, <2>1, <2>2, <2>3 DEF AwaitInv
  <2> QED BY <1>7, <2>4, <2>5, <2>6, <2>7 DEF IInv
<1>9. CASE ~(next.kind = "overflow" /\ overflow = {})
  <2>1. /\ task' = [at |-> "persist", kind |-> next.kind, by |-> next.by,
                    todo |-> Snapshot(next.kind), tries |-> 0]
        /\ flush' = flush
    BY <1>9 DEF TaskStarts
  <2>2. /\ task'.at = "persist" /\ task'.kind = next.kind /\ task'.by = next.by
        /\ task'.todo = IF next.kind = "batch" THEN buffer ELSE overflow
    BY <2>1 DEF Snapshot
  <2>3. TypeOK'
    <3>1. task' \in Running
      BY <1>4, <2>1 DEF IInv, TypeOK, Running, Snapshot, AuditAssumption
    <3> QED BY <1>1, <1>2, <2>1, <3>1 DEF IInv, TypeOK
  <2>4. Waiting'
    BY <1>1, <2>2 DEF IInv, Waiting
  <2>5. TaskInv'
    BY <1>1, <1>4, <2>2 DEF TaskInv
  <2>6. \A f \in Flushes : /\ Reaches(f, buffer) => Reaches(f, buffer)'
                           /\ Reaches(f, {}) => Reaches(f, {})'
    BY <1>1, <2>1 DEF Reaches, Since
  <2>7. FlushInv'
    BY <1>1, <2>1, <2>6 DEF IInv, FlushInv
  <2>8. next.by # None /\ next.kind = "batch" => Reaches(task.by, task.todo)'
    BY <1>1, <1>4, <1>5, <2>1, <2>2 DEF Reaches, Since
  <2>9. AwaitInv'
    BY <1>1, <1>4, <1>5, <1>6, <2>1, <2>2, <2>6, <2>8 DEF AwaitInv
  <2> QED BY <1>7, <2>3, <2>4, <2>5, <2>7, <2>9 DEF IInv
<1> QED BY <1>8, <1>9

(* Steps of the running task that neither write events nor queue tasks *)
LEMMA TaskStep ==
  ASSUME IInv, TypeOK',
         UNCHANGED <<written, chain>>,
         \A e \in Events : copies[e] > 0 => copies'[e] > 0,
         \A e \in buffer : e \in buffer' \/ copies'[e] > 0,
         \A f \in Flushes : /\ flush'[f].due = flush[f].due
                            /\ flush'[f].at = "called" => flush[f].at = "called"
  PROVE  /\ \A f \in Flushes : /\ flush[f].due <= written'
                               /\ Reaches(f, buffer) => Reaches(f, buffer)'
                               /\ Reaches(f, {}) => Reaches(f, {})'
                               /\ task.todo' = task.todo /\ Reaches(f, task.todo)
                                    => Reaches(f, task.todo)'
         /\ \A i \in 1..Len(chain') :
              chain'[i].by # None => /\ flush'[chain'[i].by].at # "called"
                                     /\ chain'[i].kind = "batch" => Reaches(chain[i].by, buffer)'
<1>1. ASSUME NEW f \in Flushes
      PROVE  /\ flush[f].due <= written'
             /\ \A e \in 1..flush[f].due : e \in Events
             /\ \A e \in 1..flush[f].due : Since(f, e) <=> Since(f, e)'
  <2>1. /\ flush[f].due \in Nat /\ flush[f].due <= written
        /\ written \in Nat /\ written <= MaxEvents /\ MaxEvents \in Nat
    BY FlushTypes DEF IInv, FlushInv, TypeOK, AuditAssumption
  <2> QED BY <2>1 DEF Events, Since
<1>2. ASSUME NEW f \in Flushes
      PROVE  /\ Reaches(f, buffer) => Reaches(f, buffer)'
             /\ Reaches(f, {}) => Reaches(f, {})'
             /\ task.todo' = task.todo /\ Reaches(f, task.todo) => Reaches(f, task.todo)'
  BY <1>1 DEF Reaches
<1>3. ASSUME NEW i \in 1..Len(chain'), chain'[i].by # None
      PROVE  /\ flush'[chain'[i].by].at # "called"
             /\ chain'[i].kind = "batch" => Reaches(chain[i].by, buffer)'
  <2>1. chain[i].by \in Flushes
    BY <1>3, ChainTypes DEF IInv
  <2> QED BY <1>2, <1>3, <2>1 DEF IInv, AwaitInv
<1> QED BY <1>1, <1>2, <1>3

(* Storage commits events none of which it held. *)
LEMMA StorageCommitsKeeps == ASSUME IInv, StorageCommits PROVE IInv'
<1>1. /\ UNCHANGED <<written, buffer, overflow, chain, flush, failures, gaveUp>>
      /\ task.at = "persist" /\ task' = [task EXCEPT !.at = "committed"]
      /\ copies' = [e \in Events |-> copies[e] + IF e \in task.todo THEN 1 ELSE 0]
  BY DEF StorageCommits
<1>2. task \in Running /\ task' \in Running /\ copies \in [Events -> Nat]
  BY <1>1 DEF IInv, TypeOK, Running
<1>3. /\ task'.at = "committed" /\ task'.kind = task.kind
      /\ task'.by = task.by /\ task'.todo = task.todo
  BY <1>1, <1>2 DEF Running
<1>4. \A e \in Events : /\ copies[e] \in Nat
                        /\ copies'[e] = IF e \in task.todo THEN copies[e] + 1 ELSE copies[e]
  BY <1>1, <1>2
<1>5. /\ task.todo \subseteq buffer \cup overflow
      /\ buffer \subseteq Events /\ overflow \subseteq Events
  BY <1>1 DEF IInv, TypeOK, TaskInv
<1>6. \A e \in task.todo : copies[e] = 0 /\ copies'[e] = 1
  BY <1>1, <1>4, <1>5 DEF IInv, Waiting
<1>7. TypeOK'
  BY <1>1, <1>2, <1>4 DEF IInv, TypeOK
<1>8. InRing'
  BY <1>1 DEF IInv, InRing
<1>9. Waiting' /\ StoredOnce'
  BY <1>1, <1>3, <1>4, <1>6 DEF IInv, Waiting, StoredOnce
<1>10. TaskInv'
  BY <1>1, <1>3, <1>6 DEF IInv, TaskInv
<1>11. NothingDropped'
  <2>1. \A e \in 1..written : e \in Events
    BY DEF IInv, TypeOK, Events
  <2> QED BY <1>1, <1>4, <2>1 DEF IInv, NothingDropped
<1>12. FlushInv' /\ AwaitInv'
  <2>1. \A e \in Events : copies[e] > 0 => copies'[e] > 0
    BY <1>4
  <2>2. task.by \in Flushes \cup {None}
    BY <1>2 DEF Running
  <2> QED BY <1>1, <1>3, <1>7, <2>1, <2>2, TaskStep DEF IInv, FlushInv, AwaitInv
<1> QED BY <1>7, <1>8, <1>9, <1>10, <1>11, <1>12 DEF IInv

(* A task tries again. *)
LEMMA TaskRetriesKeeps == ASSUME IInv, TaskRetries PROVE IInv'
<1>1. /\ UNCHANGED <<written, buffer, overflow, copies, chain, flush, failures, gaveUp>>
      /\ task.at = "backoff"
      /\ task' = [task EXCEPT !.at = "persist",
                              !.todo = IF task.kind = "batch" THEN @ ELSE overflow]
  BY DEF TaskRetries
<1>2. task \in Running /\ overflow \subseteq Events
  BY DEF IInv, TypeOK
<1>3. /\ task' \in Running
      /\ task'.at = "persist" /\ task'.kind = task.kind /\ task'.by = task.by
      /\ task'.todo = IF task.kind = "batch" THEN task.todo ELSE overflow
  BY <1>1, <1>2 DEF Running
<1>4. TypeOK'
  BY <1>1, <1>3 DEF IInv, TypeOK
<1>5. InRing' /\ StoredOnce' /\ NothingDropped' /\ Waiting'
  BY <1>1, <1>3 DEF IInv, InRing, StoredOnce, NothingDropped, Waiting
<1>6. TaskInv'
  BY <1>1, <1>2, <1>3 DEF IInv, TaskInv, Running
<1>7. FlushInv' /\ AwaitInv'
  <2>1. task.by \in Flushes \cup {None}
    BY <1>2 DEF Running
  <2>2. task'.kind = "batch" => task'.todo = task.todo
    BY <1>3
  <2> QED BY <1>1, <1>3, <1>4, <2>1, <2>2, TaskStep DEF IInv, FlushInv, AwaitInv
<1> QED BY <1>4, <1>5, <1>6, <1>7 DEF IInv

(* A batch is stored: buffer and overflow queue forget it. *)
LEMMA BatchStoredKeeps == ASSUME IInv, BatchStored PROVE IInv'
<1>1. /\ UNCHANGED <<written, copies, chain, failures, gaveUp>>
      /\ task.at = "committed" /\ task.kind = "batch"
      /\ buffer' = buffer \ task.todo /\ overflow' = overflow \ task.todo
      /\ task' = NoTask /\ Tells(task.by, "batched")
  BY DEF BatchStored, Unstored
<1>2. task \in Running /\ task.by \in Flushes \cup {None} /\ task'.at = "idle"
  BY <1>1 DEF IInv, TypeOK, Running, NoTask
<1>3. /\ flush' \in [Flushes -> FlushState]
      /\ \A f \in Flushes : /\ flush'[f].due = flush[f].due
                            /\ flush'[f].at = IF f = task.by THEN "batched" ELSE flush[f].at
  BY <1>1, Told DEF IInv
<1>4. \A e \in task.todo : copies'[e] = 1
  BY <1>1 DEF IInv, TaskInv
<1>5. TypeOK'
  <2>1. task' \in Running
    BY <1>1 DEF Running, NoTask, AuditAssumption
  <2> QED BY <1>1, <1>3, <2>1 DEF IInv, TypeOK
<1>6. InRing' /\ StoredOnce'
  BY <1>1 DEF IInv, InRing, StoredOnce
<1>7. Waiting'
  <2>1. \A e \in task.todo : e <= written
    <3>1. task.todo \subseteq buffer \cup overflow
      BY <1>1 DEF IInv, TaskInv
    <3>2. \A e \in buffer \cup overflow : e <= written
      BY DEF IInv, InRing, TypeOK, Events, AuditAssumption
    <3> QED BY <3>1, <3>2
  <2>2. \A e \in task.todo : ~(written < e)
    <3>1. \A e \in task.todo : e \in Nat
      BY <1>2 DEF Running, Events
    <3>2. written \in Nat
      BY DEF IInv, TypeOK
    <3> QED BY <2>1, <3>1, <3>2
  <2> QED BY <1>1, <2>2 DEF IInv, Waiting
<1>8. TaskInv'
  BY <1>2 DEF TaskInv
<1>9. NothingDropped'
  BY <1>1, <1>4 DEF IInv, NothingDropped
<1>10. /\ \A e \in Events : copies[e] > 0 => copies'[e] > 0
       /\ \A e \in buffer : e \in buffer' \/ copies'[e] > 0
       /\ \A f \in Flushes : flush'[f].at = "called" => flush[f].at = "called"
  BY <1>1, <1>3, <1>4
<1>11. ASSUME NEW f \in Flushes, f = task.by PROVE Reaches(f, {})'
  <2>1. Reaches(f, task.todo)
    BY <1>1, <1>11 DEF IInv, AwaitInv, AuditAssumption
  <2>2. \A e \in task.todo : copies'[e] > 0
    BY <1>4
  <2> QED BY <1>1, <1>3, <2>1, <2>2 DEF Reaches, Since
<1>12. FlushInv' /\ AwaitInv'
  BY <1>1, <1>2, <1>3, <1>5, <1>10, <1>11, TaskStep DEF IInv, FlushInv, AwaitInv
<1> QED BY <1>5, <1>6, <1>7, <1>8, <1>9, <1>12 DEF IInv

(* The overflow queue's task has stored what it took. *)
LEMMA OverflowStoredKeeps == ASSUME IInv, OverflowStored PROVE IInv'
<1> DEFINE rest == overflow \ task.todo
<1>1. /\ UNCHANGED <<written, buffer, copies, chain, failures, gaveUp>>
      /\ task.at = "committed" /\ task.kind = "overflow"
      /\ overflow' = rest
      /\ \/ rest = {} /\ task' = NoTask /\ Tells(task.by, "overflowed")
         \/ task' = [task EXCEPT !.at = "persist", !.todo = rest, !.tries = 0] /\ flush' = flush
  BY SplicedIsUnstored DEF OverflowStored, IInv
<1>2. task \in Running /\ task.by \in Flushes \cup {None} /\ overflow \subseteq Events
  BY DEF IInv, TypeOK, Running
<1>3. /\ task' \in Running
      /\ \/ task'.at = "idle" /\ overflow' = {}
         \/ /\ task'.at = "persist" /\ task'.kind = "overflow" /\ task'.by = task.by
            /\ task'.todo = rest
  <2>1. CASE rest = {} /\ task' = NoTask
    BY <1>1, <2>1 DEF Running, NoTask, AuditAssumption
  <2>2. CASE task' = [task EXCEPT !.at = "persist", !.todo = rest, !.tries = 0]
    <3>1. 0 \in 0..(MaxRetries - 1) /\ rest \subseteq Events
      BY <1>2 DEF AuditAssumption
    <3> QED BY <1>1, <1>2, <2>2, <3>1 DEF Running
  <2> QED BY <1>1, <2>1, <2>2
<1>5. /\ flush' \in [Flushes -> FlushState]
      /\ \A f \in Flushes :
           /\ flush'[f].due = flush[f].due
           /\ flush'[f].at = flush[f].at \/ (overflow' = {} /\ flush'[f].at = "overflowed")
  <2>1. CASE flush' = flush
    BY <2>1 DEF IInv, TypeOK
  <2>2. CASE rest = {} /\ Tells(task.by, "overflowed")
    BY <1>1, <2>2, Told DEF IInv
  <2> QED BY <1>1, <2>1, <2>2
<1>6. \A e \in task.todo : copies'[e] = 1
  BY <1>1 DEF IInv, TaskInv
<1>7. TypeOK'
  BY <1>1, <1>2, <1>3, <1>5 DEF IInv, TypeOK
<1>8. InRing' /\ StoredOnce'
  BY <1>1 DEF IInv, InRing, StoredOnce
<1>9. Waiting'
  <2>1. task.todo \subseteq overflow
    BY <1>1 DEF IInv, TaskInv
  <2>2. \A e \in task.todo : e \notin buffer /\ ~(written < e)
    <3>1. \A e \in overflow : e \in Nat /\ e + Capacity <= written
      BY <1>2 DEF IInv, InRing, Events, AuditAssumption
    <3>2. written \in Nat /\ Capacity \in Nat
      BY DEF IInv, TypeOK, AuditAssumption
    <3>3. \A e \in buffer : written < e + Capacity
      BY DEF IInv, InRing
    <3> QED BY <2>1, <3>1, <3>2, <3>3
  <2> QED BY <1>1, <2>2 DEF IInv, Waiting
<1>10. TaskInv'
  BY <1>1, <1>3 DEF TaskInv
<1>11. NothingDropped'
  BY <1>1, <1>6 DEF IInv, NothingDropped
<1>12. /\ \A e \in Events : copies[e] > 0 => copies'[e] > 0
       /\ \A e \in buffer : e \in buffer' \/ copies'[e] > 0
       /\ \A f \in Flushes : flush'[f].at = "called" => flush[f].at = "called"
  BY <1>1, <1>5
<1>13. ASSUME NEW f \in Flushes, overflow' = {} PROVE Reaches(f, buffer)'
  <2>1. flush[f].due \in Nat /\ flush[f].due <= written
    BY FlushTypes DEF IInv, FlushInv
  <2>2. written \in Nat
    BY DEF IInv, TypeOK
  <2>3. \A e \in 1..written' : copies'[e] \in Nat
    BY <1>7 DEF TypeOK, Events, AuditAssumption
  <2> QED BY <1>1, <1>5, <1>11, <1>13, <2>1, <2>2, <2>3 DEF NothingDropped, Reaches
<1>14. FlushInv'
  BY <1>1, <1>5, <1>7, <1>12, <1>13, TaskStep DEF IInv, FlushInv
<1>15. AwaitInv'
  <2>1. ASSUME task.by # None PROVE flush'[task.by].at # "called"
    BY <1>1, <1>2, <1>12, <2>1 DEF IInv, AwaitInv
  <2> QED BY <1>1, <1>3, <1>5, <1>7, <1>12, <2>1, TaskStep DEF AwaitInv
<1> QED BY <1>7, <1>8, <1>9, <1>10, <1>11, <1>14, <1>15 DEF IInv

(* Storage rejects an attempt, which may be the task's last. *)
LEMMA StorageRejectsKeeps == ASSUME IInv, StorageRejects PROVE IInv'
<1>1. /\ UNCHANGED <<written, buffer, overflow, copies, chain>>
      /\ task.at = "persist" /\ failures < MaxFailures /\ failures' = failures + 1
      /\ \/ /\ task.tries + 1 < MaxRetries
            /\ task' = [task EXCEPT !.at = "backoff", !.tries = @ + 1]
            /\ flush' = flush /\ gaveUp' = gaveUp
         \/ /\ task' = NoTask /\ Tells(task.by, "failed")
            /\ gaveUp' = (gaveUp \/ task.kind = "overflow")
  BY DEF StorageRejects
<1>2. /\ task \in Running /\ task.by \in Flushes \cup {None}
      /\ task.tries \in Nat /\ MaxRetries \in Nat /\ MaxRetries > 0
  BY DEF IInv, TypeOK, Running, AuditAssumption
<1>3. \/ task'.at = "idle"
      \/ /\ task'.at = "backoff" /\ task'.kind = task.kind
         /\ task'.by = task.by /\ task'.todo = task.todo
  <2>1. CASE task' = NoTask
    BY <2>1 DEF NoTask
  <2>2. CASE task' = [task EXCEPT !.at = "backoff", !.tries = @ + 1]
    BY <1>2, <2>2 DEF Running
  <2> QED BY <1>1, <2>1, <2>2
<1>4. task' \in Running
  <2>1. CASE task' = NoTask
    BY <1>2, <2>1 DEF Running, NoTask
  <2>2. CASE task.tries + 1 < MaxRetries /\ task' = [task EXCEPT !.at = "backoff", !.tries = @ + 1]
    <3>1. task.tries + 1 \in 0..(MaxRetries - 1)
      BY <1>2, <2>2
    <3> QED BY <1>2, <2>2, <3>1 DEF Running
  <2> QED BY <1>1, <2>1, <2>2
<1>5. /\ flush' \in [Flushes -> FlushState]
      /\ \A f \in Flushes :
           /\ flush'[f].due = flush[f].due
           /\ flush'[f].at = flush[f].at \/ flush'[f].at = "failed"
  <2>1. CASE flush' = flush
    BY <2>1 DEF IInv, TypeOK
  <2>2. CASE Tells(task.by, "failed")
    BY <2>2, Told DEF IInv
  <2> QED BY <1>1, <2>1, <2>2
<1>6. TypeOK'
  <2>1. failures' \in 0..MaxFailures
    BY <1>1 DEF IInv, TypeOK, AuditAssumption
  <2>2. gaveUp' \in BOOLEAN
    BY <1>1, Zenon DEF IInv, TypeOK
  <2> QED BY <1>1, <1>4, <1>5, <2>1, <2>2 DEF IInv, TypeOK
<1>7. InRing' /\ StoredOnce' /\ NothingDropped'
  BY <1>1 DEF IInv, InRing, StoredOnce, NothingDropped
<1>8. Waiting'
  BY <1>1, <1>3 DEF IInv, Waiting
<1>9. TaskInv'
  BY <1>1, <1>3 DEF IInv, TaskInv
<1>10. /\ \A e \in Events : copies[e] > 0 => copies'[e] > 0
       /\ \A e \in buffer : e \in buffer' \/ copies'[e] > 0
       /\ \A f \in Flushes : flush'[f].at = "called" => flush[f].at = "called"
  BY <1>1, <1>5
<1>11. FlushInv'
  BY <1>1, <1>5, <1>6, <1>10, TaskStep DEF IInv, FlushInv
<1>12. AwaitInv'
  <2>1. ASSUME task.by # None PROVE flush'[task.by].at # "called"
    BY <1>1, <1>2, <1>10, <2>1 DEF IInv, AwaitInv
  <2>2. task.by # None /\ task.kind = "batch" => Reaches(task.by, task.todo)
    BY <1>1 DEF IInv, AwaitInv
  <2> QED BY <1>1, <1>2, <1>3, <1>5, <1>6, <1>10, <2>1, <2>2, TaskStep DEF AwaitInv
<1> QED BY <1>6, <1>7, <1>8, <1>9, <1>11, <1>12 DEF IInv

-------------------------------------------------------------------------------
(* Nothing happens. *)
LEMMA StutterKeeps == ASSUME IInv, UNCHANGED vars PROVE IInv'
  BY DEF vars, IInv, TypeOK, InRing, Waiting, TaskInv, StoredOnce, NothingDropped,
         FlushInv, AwaitInv, Reaches, Since

(* Every step keeps the invariant. *)
LEMMA StepKeeps == IInv /\ [Next]_vars => IInv'
<1> SUFFICES ASSUME IInv, [Next]_vars PROVE IInv'
  OBVIOUS
<1>1. CASE Write
  BY <1>1, WriteKeeps
<1>2. CASE Timer
  BY <1>2, TimerKeeps
<1>3. CASE TaskGoesOn
  BY <1>3, TaskStartsKeeps, StorageCommitsKeeps, BatchStoredKeeps, OverflowStoredKeeps,
     TaskRetriesKeeps DEF TaskGoesOn
<1>4. CASE StorageRejects
  BY <1>4, StorageRejectsKeeps
<1>5. CASE \E f \in Flushes : FlushCalled(f) \/ FlushGoesOn(f) \/ FlushFails(f)
  BY <1>5, FlushCalledKeeps, FlushGoesOnKeeps, FlushFailsKeeps
<1>6. CASE UNCHANGED vars
  BY <1>6, StutterKeeps
<1> QED BY <1>1, <1>2, <1>3, <1>4, <1>5, <1>6 DEF Next

(* The strengthened invariant holds in every reachable state. *)
THEOREM Invariant == Spec => []IInv
<1> QED BY InitEstablishes, StepKeeps, PTL DEF Spec

(* The sink's queues, its tasks and its flushes are well-formed.             *)
THEOREM Typed == Spec => []TypeOK
<1>1. IInv => TypeOK
  BY DEF IInv
<1> QED BY <1>1, Invariant, PTL

(* Whatever ring capacity, retries and failures: a written event is stored,  *)
(* in the buffer or in the overflow queue, wherever evictions move it.       *)
THEOREM NoneDropped == Spec => []NothingDropped
<1>1. IInv => NothingDropped
  BY DEF IInv
<1> QED BY <1>1, Invariant, PTL

(* No event is stored twice, though one may sit in the overflow queue and in *)
(* a batch under way at the same time.                                       *)
THEOREM NoneTwice == Spec => []StoredOnce
<1>1. IInv => StoredOnce
  BY DEF IInv
<1> QED BY <1>1, Invariant, PTL

(* A flush that returns has stored all that was written before its call, but *)
(* for what the ring evicted meanwhile, with any overlapping flushes.        *)
THEOREM FlushDelivers == Spec => []FlushPersists
<1>1. IInv => FlushPersists
  <2> SUFFICES ASSUME IInv, NEW f \in Flushes, flush[f].at = "returned",
                      NEW e \in 1..flush[f].due
               PROVE  copies[e] > 0 \/ (e + Capacity > flush[f].due /\ e + Capacity <= written)
    BY DEF FlushPersists
  <2> QED BY DEF IInv, FlushInv, Reaches, Since
<1> QED BY <1>1, Invariant, PTL

-------------------------------------------------------------------------------
(* The sink implements DurableLog. A write is accepted, a commit of the      *)
(* storage is the store of its batch; every other step moves events between  *)
(* the queues, or forgets what is stored, and the log stutters.              *)

(* What waits is a set of events that were written. *)
LEMMA OutstandingTypes ==
  ASSUME TypeOK
  PROVE  /\ Outstanding \subseteq Events
         /\ \A e \in Events : e \in Outstanding <=> e \in buffer \cup overflow /\ copies[e] = 0
BY DEF Outstanding, TypeOK

(* A step that stores nothing and keeps what is unstored in the queues *)
LEMMA LogStutters ==
  ASSUME TypeOK, UNCHANGED <<written, copies>>,
         \A e \in Events : copies[e] = 0 =>
           (e \in buffer' \cup overflow' <=> e \in buffer \cup overflow),
         buffer' \subseteq Events, overflow' \subseteq Events
  PROVE  UNCHANGED <<written, Outstanding, copies>>
<1>1. Outstanding' = Outstanding
  BY DEF Outstanding, TypeOK
<1> QED BY <1>1

LEMMA WriteAccepts == ASSUME IInv, Write PROVE Log!Accept
<1> DEFINE n == written + 1
<1>1. /\ Capacity \in Nat \ {0}
      /\ written \in Nat /\ n \in Events
      /\ buffer \subseteq Nat /\ overflow \subseteq Nat
  BY DEF IInv, TypeOK, Events, Write, AuditAssumption
<1>2. /\ written' = n /\ copies' = copies
      /\ buffer' = {e \in buffer : e + Capacity # n} \cup {n}
      /\ overflow' = overflow \cup {e \in buffer : e + Capacity = n}
  BY DEF IInv, TypeOK, Write, Moved, Evicted
<1>3. copies[n] = 0
  <2>1. n \notin buffer /\ n \notin overflow
    BY <1>1 DEF IInv, InRing
  <2>2. task.at = "committed" => n \notin task.todo
    BY <2>1 DEF IInv, TaskInv
  <2> QED BY <1>1, <2>2 DEF IInv, Waiting
<1>4. buffer' \cup overflow' = buffer \cup overflow \cup {n}
  BY <1>2
<1>5. Outstanding' = Outstanding \cup {n}
  BY <1>2, <1>3, <1>4 DEF Outstanding
<1> QED BY <1>2, <1>5 DEF Log!Accept

LEMMA CommitStores == ASSUME IInv, StorageCommits PROVE Log!Store(task.todo)
<1>1. /\ UNCHANGED <<written, buffer, overflow>>
      /\ task.at = "persist"
      /\ copies' = [e \in Events |-> copies[e] + IF e \in task.todo THEN 1 ELSE 0]
  BY DEF StorageCommits
<1>2. /\ buffer \cup overflow \subseteq Events
      /\ task.todo \subseteq buffer \cup overflow
      /\ \A e \in Events : copies[e] \in Nat
  BY <1>1 DEF IInv, TypeOK, TaskInv
<1>3. \A e \in task.todo : copies[e] = 0
  BY <1>1, <1>2 DEF IInv, Waiting
<1>4. \A e \in Events : copies'[e] = 0 <=> copies[e] = 0 /\ e \notin task.todo
  BY <1>1, <1>2
<1>5. Outstanding' = Outstanding \ task.todo /\ task.todo \subseteq Outstanding
  BY <1>1, <1>2, <1>3, <1>4 DEF Outstanding
<1> QED BY <1>1, <1>5 DEF Log!Store

(* A task that forgets what is stored *)
LEMMA StoredStutters ==
  ASSUME IInv, BatchStored \/ OverflowStored
  PROVE  UNCHANGED <<written, Outstanding, copies>>
<1>1. task.at = "committed" /\ UNCHANGED <<written, copies>>
  BY DEF BatchStored, OverflowStored
<1>2. \A e \in task.todo : copies[e] = 1
  BY <1>1 DEF IInv, TaskInv
<1>3. /\ buffer' \subseteq buffer /\ buffer \ task.todo \subseteq buffer'
      /\ overflow' = overflow \ task.todo
  BY SplicedIsUnstored DEF BatchStored, OverflowStored, Unstored, IInv
<1> QED BY <1>1, <1>2, <1>3, LogStutters DEF IInv, TypeOK

(* Every step is a step of the log, or the log stutters. *)
LEMMA StepRefines == IInv /\ [Next]_vars => [Log!Next]_(Log!vars)
<1> SUFFICES ASSUME IInv, [Next]_vars PROVE [Log!Next]_(Log!vars)
  OBVIOUS
<1>1. CASE Write
  BY <1>1, WriteAccepts DEF Log!Next
<1>2. CASE StorageCommits
  <2>1. Log!Store(task.todo)
    BY <1>2, CommitStores
  <2>2. task.todo \in SUBSET Outstanding
    BY <2>1 DEF Log!Store
  <2> QED BY <2>1, <2>2 DEF Log!Next
<1>3. CASE BatchStored \/ OverflowStored
  BY <1>3, StoredStutters DEF Log!vars
<1>4. CASE UNCHANGED <<written, buffer, overflow, copies>>
  BY <1>4 DEF Log!vars, Outstanding
<1>5. Timer \/ TaskStarts \/ TaskRetries \/ StorageRejects \/ UNCHANGED vars
        => UNCHANGED <<written, buffer, overflow, copies>>
  BY DEF Timer, TaskStarts, TaskRetries, StorageRejects, vars
<1>6. ASSUME NEW f \in Flushes, FlushCalled(f) \/ FlushGoesOn(f) \/ FlushFails(f)
      PROVE  UNCHANGED <<written, buffer, overflow, copies>>
  BY <1>6 DEF FlushCalled, FlushGoesOn, FlushFails
<1> QED BY <1>1, <1>2, <1>3, <1>4, <1>5, <1>6 DEF Next, TaskGoesOn

(* Whatever the capacity, the retries, the failures and the flushes, the     *)
(* sink is a durable log: accepted events wait until they are stored, once.  *)
THEOREM ImplementsLog == Spec => ImplementsDurableLog
<1>1. Init => Log!Init
  BY DEF Init, Log!Init, Outstanding
<1> QED BY <1>1, StepRefines, Invariant, PTL DEF Spec, ImplementsDurableLog, Log!Spec

-------------------------------------------------------------------------------
(* A task of the chain, or the one that runs, is to store the overflow queue; *)
(* one will answer flush f.                                                  *)
OverflowTask ==
  \/ task.at # "idle" /\ task.kind = "overflow"
  \/ \E i \in 1..Len(chain) : chain[i].kind = "overflow"

TaskOf(f) ==
  \/ task.at # "idle" /\ task.by = f
  \/ \E i \in 1..Len(chain) : chain[i].by = f

(* Nobody waits for a task that will not come: an evicted event has one, or  *)
(* one has given up and dropped out (the escape that Delivered names), and a *)
(* flush that awaits has its own. The safety part of Delivered: the chain    *)
(* loses no task, whatever writes, evictions and flushes queue up behind it. *)
TasksPending ==
  /\ overflow # {} => gaveUp \/ OverflowTask
  /\ \A f \in Flushes : flush[f].at = "await" => TaskOf(f)

(* A task that joins the chain leaves those before it where they are.        *)
LEMMA ChainGrows ==
  ASSUME TypeOK, NEW k \in {"batch", "overflow"}, NEW by \in Flushes \cup {None}
  PROVE  LET d == Append(chain, [kind |-> k, by |-> by])
         IN /\ \A i \in 1..Len(chain) : i \in 1..Len(d) /\ d[i] = chain[i]
            /\ Len(d) \in 1..Len(d) /\ d[Len(d)] = [kind |-> k, by |-> by]
<1>1. chain \in Seq(Task) /\ [kind |-> k, by |-> by] \in Task
  BY DEF TypeOK, Task
<1> QED BY <1>1

(* The task that starts is the only one that leaves the chain.               *)
LEMMA ChainShrinks ==
  ASSUME TypeOK, chain # <<>>
  PROVE  /\ Head(chain) \in Task
         /\ \A i \in 1..Len(chain) : \/ chain[i] = Head(chain)
                                     \/ \E j \in 1..Len(Tail(chain)) : Tail(chain)[j] = chain[i]
<1>1. chain \in Seq(Task)
  BY DEF TypeOK
<1>2. Head(chain) \in Task
  BY <1>1
<1>3. ASSUME NEW i \in 1..Len(chain), i # 1
      PROVE  i - 1 \in 1..Len(Tail(chain)) /\ Tail(chain)[i - 1] = chain[i]
  BY <1>1, <1>3
<1>4. ASSUME NEW i \in 1..Len(chain), i = 1 PROVE chain[i] = Head(chain)
  BY <1>1, <1>4
<1> QED BY <1>2, <1>3, <1>4

(* A step that keeps the chain, or lets a task join it, loses none.          *)
LEMMA TasksStay ==
  ASSUME TypeOK, task' = task,
         \/ chain' = chain
         \/ \E k \in {"batch", "overflow"}, by \in Flushes \cup {None} :
              chain' = Append(chain, [kind |-> k, by |-> by])
  PROVE  /\ OverflowTask => OverflowTask'
         /\ \A f \in Flushes : TaskOf(f) => TaskOf(f)'
<1>1. CASE chain' = chain
  BY <1>1 DEF OverflowTask, TaskOf
<1>2. CASE \E k \in {"batch", "overflow"}, by \in Flushes \cup {None} :
             chain' = Append(chain, [kind |-> k, by |-> by])
  <2>1. PICK k \in {"batch", "overflow"}, by \in Flushes \cup {None} :
             chain' = Append(chain, [kind |-> k, by |-> by])
    BY <1>2
  <2>2. \A i \in 1..Len(chain) : i \in 1..Len(chain') /\ chain'[i] = chain[i]
    BY <2>1, ChainGrows
  <2> QED BY <2>2 DEF OverflowTask, TaskOf
<1> QED BY <1>1, <1>2

LEMMA WritePends == ASSUME IInv, TasksPending, Write PROVE TasksPending'
<1> DEFINE n == written + 1
           moved == Moved(n)
           over == [kind |-> "overflow", by |-> None]
           batch == [kind |-> "batch", by |-> None]
           c == IF moved = {} THEN chain ELSE Append(chain, over)
<1>1. /\ overflow' = overflow \cup moved
      /\ chain' = c \/ chain' = Append(c, batch)
      /\ UNCHANGED <<task, flush, gaveUp>>
  BY DEF Write, Queued
<1>2. /\ c \in Seq(Task)
      /\ \A i \in 1..Len(chain) : i \in 1..Len(c) /\ c[i] = chain[i]
      /\ moved # {} => \E i \in 1..Len(c) : c[i].kind = "overflow"
  <2>1. chain \in Seq(Task)
    BY DEF IInv, TypeOK
  <2>2. over \in Task
    BY DEF Task
  <2>3. CASE moved = {}
    BY <2>1, <2>3
  <2>4. CASE moved # {}
    <3>1. c = Append(chain, over)
      BY <2>4
    <3>2. Len(c) \in 1..Len(c) /\ c[Len(c)] = over
      BY <3>1, ChainGrows DEF IInv
    <3> QED BY <2>1, <2>2, <3>1, <3>2, ChainGrows DEF IInv
  <2> QED BY <2>3, <2>4
<1>3. \A i \in 1..Len(c) : i \in 1..Len(chain') /\ chain'[i] = c[i]
  <2> HIDE DEF c
  <2>1. batch \in Task
    BY DEF Task
  <2>2. CASE chain' = c
    BY <2>2
  <2>3. CASE chain' = Append(c, batch)
    BY <1>2, <2>1, <2>3
  <2> QED BY <1>1, <2>2, <2>3
<1>4. \A i \in 1..Len(chain) : i \in 1..Len(chain') /\ chain'[i] = chain[i]
  <2> HIDE DEF c
  <2> QED BY <1>2, <1>3
<1>5. moved # {} => \E i \in 1..Len(chain') : chain'[i].kind = "overflow"
  <2> HIDE DEF c, moved
  <2> QED BY <1>2, <1>3
<1> HIDE DEF c, moved
<1>6. overflow' # {} => gaveUp' \/ OverflowTask'
  BY <1>1, <1>4, <1>5 DEF TasksPending, OverflowTask
<1>7. \A f \in Flushes : flush'[f].at = "await" => TaskOf(f)'
  BY <1>1, <1>4 DEF TasksPending, TaskOf
<1> QED BY <1>6, <1>7 DEF TasksPending

(* A flush that a task answers no longer awaits; the others stay.            *)
LEMMA AnswerEnds ==
  ASSUME IInv, NEW by, NEW outcome \in {"overflowed", "batched", "failed"}, Tells(by, outcome)
  PROVE  \A f \in Flushes : flush'[f].at = "await" => f # by /\ flush[f].at = "await"
BY Told DEF IInv

LEMMA TaskStartsPends == ASSUME IInv, TasksPending, TaskStarts PROVE TasksPending'
<1> DEFINE next == Head(chain)
<1>1. /\ task.at = "idle" /\ chain # <<>> /\ chain' = Tail(chain)
      /\ UNCHANGED <<overflow, gaveUp>>
      /\ \/ next.kind = "overflow" /\ overflow = {} /\ Tells(next.by, "overflowed") /\ task' = task
         \/ /\ task' = [at |-> "persist", kind |-> next.kind, by |-> next.by,
                        todo |-> Snapshot(next.kind), tries |-> 0]
            /\ flush' = flush
  BY DEF TaskStarts
<1>2. /\ next \in Task
      /\ \A i \in 1..Len(chain) : \/ chain[i] = next
                                  \/ \E j \in 1..Len(chain') : chain'[j] = chain[i]
  BY <1>1, ChainShrinks DEF IInv
<1> HIDE DEF next
<1>3. CASE next.kind = "overflow" /\ overflow = {} /\ Tells(next.by, "overflowed") /\ task' = task
  <2>1. \A f \in Flushes : flush'[f].at = "await" => f # next.by /\ flush[f].at = "await"
    BY <1>3, AnswerEnds
  <2>2. ASSUME NEW f \in Flushes, flush'[f].at = "await"
        PROVE  \E j \in 1..Len(chain') : chain'[j].by = f
    BY <1>1, <1>2, <2>1, <2>2 DEF TasksPending, TaskOf
  <2> QED BY <1>1, <1>3, <2>2 DEF TasksPending, TaskOf
<1>4. CASE /\ task' = [at |-> "persist", kind |-> next.kind, by |-> next.by,
                       todo |-> Snapshot(next.kind), tries |-> 0]
           /\ flush' = flush
  <2>1. task'.at = "persist" /\ task'.kind = next.kind /\ task'.by = next.by
    BY <1>4
  <2>2. OverflowTask => OverflowTask'
    BY <1>1, <1>2, <2>1 DEF OverflowTask
  <2>3. \A f \in Flushes : TaskOf(f) => TaskOf(f)'
    BY <1>1, <1>2, <2>1 DEF TaskOf
  <2> QED BY <1>1, <1>4, <2>2, <2>3 DEF TasksPending
<1> QED BY <1>1, <1>3, <1>4

(* The task that runs goes on, or ends and answers.                          *)
LEMMA TaskPends ==
  ASSUME IInv, TasksPending,
         StorageCommits \/ BatchStored \/ OverflowStored \/ TaskRetries \/ StorageRejects
  PROVE  TasksPending'
<1>0. task.by \in Flushes \cup {None} /\ task \in Running
  BY DEF IInv, TypeOK, Running
<1>1. ASSUME chain' = chain, task'.at # "idle", task'.kind = task.kind, task'.by = task.by,
             task.at # "idle", flush' = flush, gaveUp' = gaveUp,
             overflow' # {} => overflow # {}
      PROVE  TasksPending'
  BY <1>1 DEF TasksPending, OverflowTask, TaskOf
<1>2. ASSUME chain' = chain, NEW outcome \in {"overflowed", "batched", "failed"},
             Tells(task.by, outcome), gaveUp => gaveUp',
             overflow' # {} => overflow # {} /\ (task.kind = "overflow" => gaveUp')
      PROVE  TasksPending'
  <2>1. \A f \in Flushes : flush'[f].at = "await" => f # task.by /\ flush[f].at = "await"
    BY <1>0, <1>2, AnswerEnds
  <2>2. \A f \in Flushes : flush'[f].at = "await" => TaskOf(f)'
    BY <1>2, <2>1 DEF TasksPending, TaskOf
  <2>3. overflow' # {} => gaveUp' \/ OverflowTask'
    BY <1>2 DEF TasksPending, OverflowTask
  <2> QED BY <2>2, <2>3 DEF TasksPending
<1>3. CASE StorageCommits
  BY <1>0, <1>1, <1>3 DEF StorageCommits, Running
<1>4. CASE BatchStored
  BY <1>2, <1>4 DEF BatchStored, Unstored
<1>5. CASE OverflowStored
  <2>1. /\ chain' = chain /\ gaveUp' = gaveUp /\ task.at # "idle" /\ task.kind = "overflow"
        /\ overflow' = Spliced(Cardinality(task.todo))
        /\ overflow' = overflow \ task.todo
    BY <1>5, SplicedIsUnstored DEF OverflowStored, IInv
  <2>2. CASE overflow' = {} /\ Tells(task.by, "overflowed")
    BY <1>2, <2>1, <2>2
  <2>3. CASE /\ task' = [task EXCEPT !.at = "persist", !.todo = overflow', !.tries = 0]
             /\ flush' = flush
    BY <1>0, <1>1, <2>1, <2>3 DEF Running
  <2> QED BY <1>5, <2>1, <2>2, <2>3 DEF OverflowStored
<1>6. CASE TaskRetries
  BY <1>0, <1>1, <1>6 DEF TaskRetries, Running
<1>7. CASE StorageRejects
  <2>1. chain' = chain /\ overflow' = overflow /\ task.at # "idle"
    BY <1>7 DEF StorageRejects
  <2>2. CASE /\ task' = [task EXCEPT !.at = "backoff", !.tries = @ + 1]
             /\ flush' = flush /\ gaveUp' = gaveUp
    BY <1>0, <1>1, <2>1, <2>2 DEF Running
  <2>3. CASE Tells(task.by, "failed") /\ gaveUp' = (gaveUp \/ task.kind = "overflow")
    <3>1. gaveUp => gaveUp'
      BY <2>3, Zenon
    <3>2. task.kind = "overflow" => gaveUp'
      BY <2>3, Zenon
    <3> QED BY <1>2, <2>1, <2>3, <3>1, <3>2
  <2> QED BY <1>7, <2>2, <2>3 DEF StorageRejects
<1> QED BY <1>3, <1>4, <1>5, <1>6, <1>7

(* A flush that goes on returns, backs off, or queues the task it awaits.    *)
LEMMA FlushPends ==
  ASSUME IInv, TasksPending, NEW f \in Flushes, FlushCalled(f) \/ FlushGoesOn(f) \/ FlushFails(f)
  PROVE  TasksPending'
<1>1. /\ UNCHANGED <<overflow, task, gaveUp>>
      /\ \A g \in Flushes \ {f} : flush'[g] = flush[g]
      /\ \/ chain' = chain /\ flush'[f].at # "await"
         \/ \E k \in {"batch", "overflow"} : chain' = Append(chain, [kind |-> k, by |-> f])
  <2>0. flush \in [Flushes -> FlushState]
    BY DEF IInv, TypeOK
  <2>1. ASSUME NEW k \in FlushState, Batches(f, k) \/ Attempts(f, k) \/ Returns(f, k)
        PROVE  /\ \A g \in Flushes \ {f} : flush'[g] = flush[g]
               /\ \/ chain' = chain /\ flush'[f].at # "await"
                  \/ \E j \in {"batch", "overflow"} : chain' = Append(chain, [kind |-> j, by |-> f])
    BY <2>0, <2>1 DEF Batches, Attempts, Returns, Awaits, Queued, FlushState
  <2>2. CASE FlushCalled(f)
    <3>1. [flush[f] EXCEPT !.due = written] \in FlushState
      BY <2>0 DEF FlushState, IInv, TypeOK
    <3> QED BY <2>1, <2>2, <3>1 DEF FlushCalled
  <2>3. CASE FlushGoesOn(f)
    BY <2>0, <2>1, <2>3 DEF FlushGoesOn
  <2>4. CASE FlushFails(f)
    BY <2>0, <2>4 DEF FlushFails, FlushState
  <2> QED BY <2>2, <2>3, <2>4 DEF FlushCalled, FlushGoesOn, FlushFails
<1>2. /\ OverflowTask => OverflowTask'
      /\ \A g \in Flushes : TaskOf(g) => TaskOf(g)'
  BY <1>1, TasksStay DEF IInv
<1>3. flush'[f].at = "await" => TaskOf(f)'
  <2>1. ASSUME NEW k \in {"batch", "overflow"}, chain' = Append(chain, [kind |-> k, by |-> f])
        PROVE  TaskOf(f)'
    <3>1. Len(chain') \in 1..Len(chain') /\ chain'[Len(chain')] = [kind |-> k, by |-> f]
      BY <2>1, ChainGrows DEF IInv
    <3>2. chain'[Len(chain')].by = f
      BY <3>1
    <3> QED BY <3>1, <3>2 DEF TaskOf
  <2> QED BY <1>1, <2>1
<1>4. overflow' # {} => gaveUp' \/ OverflowTask'
  BY <1>1, <1>2 DEF TasksPending
<1>5. \A g \in Flushes : flush'[g].at = "await" => TaskOf(g)'
  BY <1>1, <1>2, <1>3 DEF TasksPending
<1> QED BY <1>4, <1>5 DEF TasksPending

(* No task is lost, for any capacity, retries, failures and flushes: what    *)
(* the ring has evicted is still to be stored by a task until one gives up,  *)
(* and a flush that awaits will be answered.                                 *)
THEOREM NoTaskLost == Spec => []TasksPending
<1>1. Init => TasksPending
  BY DEF Init, TasksPending
<1>2. IInv /\ TasksPending /\ [Next]_vars => TasksPending'
  <2> SUFFICES ASSUME IInv, TasksPending, [Next]_vars PROVE TasksPending'
    OBVIOUS
  <2>1. CASE Write
    BY <2>1, WritePends
  <2>2. CASE Timer
    <3>1. UNCHANGED <<overflow, task, flush, gaveUp>>
      BY <2>2 DEF Timer
    <3>2. chain' = Append(chain, [kind |-> "batch", by |-> None])
      BY <2>2 DEF Timer, Queued
    <3>3. /\ OverflowTask => OverflowTask'
          /\ \A f \in Flushes : TaskOf(f) => TaskOf(f)'
      BY <3>1, <3>2, TasksStay DEF IInv
    <3> QED BY <3>1, <3>3 DEF TasksPending
  <2>3. CASE TaskStarts
    BY <2>3, TaskStartsPends
  <2>4. CASE StorageCommits \/ BatchStored \/ OverflowStored \/ TaskRetries \/ StorageRejects
    BY <2>4, TaskPends
  <2>5. CASE \E f \in Flushes : FlushCalled(f) \/ FlushGoesOn(f) \/ FlushFails(f)
    BY <2>5, FlushPends
  <2>6. CASE UNCHANGED vars
    BY <2>6 DEF vars, TasksPending, OverflowTask, TaskOf
  <2> QED BY <2>1, <2>2, <2>3, <2>4, <2>5, <2>6 DEF Next, TaskGoesOn
<1> QED BY <1>1, <1>2, Invariant, PTL DEF Spec
===============================================================================
