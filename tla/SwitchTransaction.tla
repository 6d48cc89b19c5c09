--------------------------- MODULE SwitchTransaction ---------------------------
(***************************************************************************)
(* The switch transaction (renderer/switch_transaction.ts): a hot swap     *)
(* (hot_swap.ts) that raises the target beside the source, its rollback    *)
(* (rollback.ts), the buffer that holds the output of a terminal meanwhile *)
(* (SwitchBuffer in stream_binding.ts) and the terminal creations that     *)
(* wait for the transaction to end. Renderer processes may exit at any     *)
(* time.                                                                   *)
(*                                                                         *)
(* The path over restart_restore.ts is dead code (canHotSwap is constant), *)
(* as is the state "failed" unless the caller's onProgress throws.         *)
(***************************************************************************)
EXTENDS Renderers

CONSTANT Creations     (* terminal creations that ask to be queued *)

VARIABLES tx,
          buffering,   (* the buffer takes what the terminals write         *)
          output,      (* what is written while it is on, within its limit  *)
          queue

transactionVars == <<adapters, tx, buffering, output, queue, falling, late, crashes>>

(* Where a transaction waits: for an init, a start or a stop of the swap.    *)
SwapAwaits == {"init", "start", "stop"}

Tx == [at : SwapAwaits \cup {"idle"}, from : Renderers, to : Renderers,
       outcome : {"none", "committed", "rolled_back"}]

TransactionTypeOK ==
  /\ adapters \in [Renderers -> Adapter]
  /\ tx \in Tx
  /\ buffering \in BOOLEAN
  /\ output \in {"none", "held", "shown", "lost"}
  /\ queue \in [Creations -> {"none", "queued", "created", "rejected"}]
  /\ falling \in BOOLEAN
  /\ late \in BOOLEAN
  /\ crashes \in 0..MaxCrashes

TransactionInit ==
  /\ \E r \in Renderers, b \in BOOLEAN :
       adapters = [q \in Renderers |-> IF q = r THEN Shown(b) ELSE Fresh(q)]
  /\ tx = [at |-> "idle", from |-> Ghostty, to |-> Rio, outcome |-> "none"]
  /\ buffering = FALSE
  /\ output = "none"
  /\ queue = [q \in Creations |-> "none"]
  /\ falling = FALSE
  /\ late = FALSE
  /\ crashes = 0

-------------------------------------------------------------------------------
(* The buffer. A run carries it: [adapters, at, buffering, output].          *)

(* startBuffering forgets what the buffer held. *)
Forgotten(o) == IF o = "held" THEN "lost" ELSE o

StartBuffering(run) == [run EXCEPT !.buffering = TRUE, !.output = Forgotten(@)]

(* Ghostty writes a chunk it has read though its stream is replaced at once; *)
(* rio does not, and its old pump removes the new binding.                   *)
Flushed(r, o) == IF o # "held" THEN o ELSE IF r = Ghostty THEN "shown" ELSE "lost"

(* stopBuffering flushes to r, and every terminal is bound to r. Ghostty     *)
(* refuses the one or the other unless it runs.                              *)
StopBuffering(run, r) ==
  LET a == run.adapters[r]
  IN IF Binds(r, a)
       THEN [At(run, r, [a EXCEPT !.bound = r = Ghostty \/ run.output # "held"], "done")
               EXCEPT !.buffering = FALSE, !.output = Flushed(r, @)]
       ELSE At(run, r, a, "failed")

-------------------------------------------------------------------------------
(* executeHotSwap: init and start the target, stop the source, hand over.    *)

(* Fault: the buffer is started anew before it is handed over, as the        *)
(* rollback does.                                                            *)
HandOverAnew(run, to) ==
  IF run.at = "stopped" THEN StopBuffering(StartBuffering(run), to) ELSE run

(* Phase 4, once the source has stopped. *)
HandOver(run, to) == IF run.at = "stopped" THEN StopBuffering(run, to) ELSE run

(* Fault: the source is left running. *)
AfterTargetStartBeside(run, from, to) ==
  IF run.at = "started" THEN HandOver([run EXCEPT !.at = "stopped"], to) ELSE run

AfterTargetStart(run, from, to) ==
  IF run.at = "started" THEN HandOver(Stop(run, from), to) ELSE run

AfterTargetInit(run, from, to, spawns) ==
  IF run.at = "inited" THEN AfterTargetStart(Start(run, to, spawns), from, to) ELSE run

Swap(run, from, to, spawns) ==
  AfterTargetInit(InitRenderer(StartBuffering(run), to), from, to, spawns)

ResumeSwap(run, from, to, spawns) ==
  CASE run.at = "init" -> AfterTargetInit(InitDone(run, to), from, to, spawns)
    [] run.at = "start" -> AfterTargetStart(StartDone(run, to, spawns), from, to)
    [] run.at = "stop" -> HandOver(StopDone(run, from), to)

(* executeRollback. The swap fails only where the target has no process that *)
(* runs, so that its stop has nothing to await. The source is bound again if *)
(* it can be; what the buffer held is forgotten before it is handed over.    *)
ExecuteRollback(run, from, to) ==
  LET stopped == Stop(run, to)
      a == stopped.adapters[from]
  IN [At(stopped, from, [a EXCEPT !.bound = @ \/ Binds(from, a)], "restored")
        EXCEPT !.buffering = FALSE, !.output = Forgotten(@)]

OrRolledBack(run, from, to) == IF run.at = "failed" THEN ExecuteRollback(run, from, to) ELSE run

-------------------------------------------------------------------------------
(* isSwitchInProgress *)
InProgress == tx.at # "idle"

(* Fault: only a committed transaction creates the terminals that wait. *)
DrainedIfDone(at) ==
  [q \in Creations |-> IF at = "done" /\ queue[q] = "queued" THEN "created" ELSE queue[q]]

(* _drainTerminalCreationQueue, when the transaction has ended. *)
Drained(at) ==
  [q \in Creations |-> IF at \in {"done", "restored"} /\ queue[q] = "queued"
                         THEN "created" ELSE queue[q]]

TransactionRun(label) ==
  [adapters |-> adapters, buffering |-> buffering, output |-> output, at |-> label]

(* Fault: a transaction that commits is never marked so. *)
ReachesUncommitted(run, from, to) ==
  /\ adapters' = run.adapters
  /\ buffering' = run.buffering
  /\ output' = run.output
  /\ tx' = [at |-> IF run.at \in {"restored", "failed"} THEN "idle" ELSE run.at,
            from |-> from, to |-> to,
            outcome |-> IF run.at = "restored" THEN "rolled_back" ELSE "none"]
  /\ queue' = Drained(run.at)

(* The transaction from -> to comes as far as run. *)
Reaches(run, from, to) ==
  /\ adapters' = run.adapters
  /\ buffering' = run.buffering
  /\ output' = run.output
  /\ tx' = [at |-> IF run.at \in SwapAwaits THEN run.at ELSE "idle", from |-> from, to |-> to,
            outcome |-> CASE run.at = "done" -> "committed"
                          [] run.at = "restored" -> "rolled_back"
                          [] OTHER -> "none"]
  /\ queue' = Drained(run.at)

(* startSwitch, from a renderer that runs. Without terminals the swap fails  *)
(* before it starts.                                                         *)
StartSwitch(from, to) ==
  /\ ~InProgress
  /\ from # to
  /\ adapters[from].state = "running"
  /\ LET run == [TransactionRun("failed") EXCEPT !.output = "none"]
     IN \E first \in {run} \cup {Swap(run, from, to, spawns) : spawns \in BOOLEAN} :
          Reaches(OrRolledBack(first, from, to), from, to)
  /\ UNCHANGED <<falling, late, crashes>>

(* What the swap awaits has come. *)
SwapResumes ==
  /\ tx.at \in SwapAwaits
  /\ \E spawns \in BOOLEAN :
       LET run == ResumeSwap(TransactionRun(tx.at), tx.from, tx.to, spawns)
       IN Reaches(OrRolledBack(run, tx.from, tx.to), tx.from, tx.to)
  /\ UNCHANGED <<falling, late, crashes>>

(* A terminal writes while the buffer is on.                                 *)
Output ==
  /\ buffering
  /\ output \in {"none", "held"}
  /\ output' = "held"
  /\ UNCHANGED <<adapters, tx, buffering, queue, falling, late, crashes>>

(* queueTerminalCreation *)
QueueCreation(q) ==
  /\ queue[q] = "none"
  /\ queue' = [queue EXCEPT ![q] = IF InProgress THEN "queued" ELSE "created"]
  /\ UNCHANGED <<adapters, tx, buffering, output, falling, late, crashes>>

(* Its thirty seconds are over. *)
CreationTimesOut(q) ==
  /\ queue[q] = "queued"
  /\ queue' = [queue EXCEPT ![q] = "rejected"]
  /\ UNCHANGED <<adapters, tx, buffering, output, falling, late, crashes>>

Exits(r) ==
  /\ adapters[r].process = "live"
  /\ crashes < MaxCrashes
  /\ crashes' = crashes + 1
  /\ adapters' = IF r = Ghostty THEN GhosttyExits(adapters) ELSE RioExits(adapters, falling)
  /\ falling' = (falling \/ (/\ r = Rio
                             /\ FallsBack(adapters, falling)
                             /\ ~FallsAtOnce(adapters, falling)))
  /\ UNCHANGED <<tx, buffering, output, queue, late>>

FallbackCompletes ==
  /\ falling
  /\ falling' = FALSE
  /\ adapters' = FallbackDone(adapters)
  /\ UNCHANGED <<tx, buffering, output, queue, late, crashes>>

FallbackExpires ==
  /\ falling /\ ~late
  /\ falling' = FALSE
  /\ late' = TRUE
  /\ adapters' = FallbackExpired(adapters)
  /\ UNCHANGED <<tx, buffering, output, queue, crashes>>

LateInitCompletes ==
  /\ late
  /\ late' = FALSE
  /\ adapters' = LateInitDone(adapters)
  /\ UNCHANGED <<tx, buffering, output, queue, falling, crashes>>

TransactionNext ==
  \/ \E from, to \in Renderers : StartSwitch(from, to)
  \/ SwapResumes
  \/ Output
  \/ \E q \in Creations : QueueCreation(q) \/ CreationTimesOut(q)
  \/ \E r \in Renderers : Exits(r)
  \/ FallbackCompletes
  \/ FallbackExpires
  \/ LateInitCompletes

TransactionSpec == TransactionInit /\ [][TransactionNext]_transactionVars

(* A stop ends with SIGKILL, an init and the look-up of a binary by          *)
(* themselves: what a transaction awaits comes.                              *)
FairTransactionSpec == TransactionSpec /\ WF_transactionVars(SwapResumes)

-------------------------------------------------------------------------------
(* Properties *)

Ends == tx'.outcome # "none" /\ tx' # tx

(* A transaction that ends leaves, unless a process exited by itself, one    *)
(* renderer alone at work: the target if it committed, the source if it was  *)
(* rolled back - though source and target run side by side for a while and   *)
(* the swap may fail at each step.                                           *)
EndsWithOneShown ==
  [][Ends /\ crashes = 0 =>
       OneShown(adapters', IF tx'.outcome = "committed" THEN tx'.to ELSE tx'.from)
  ]_transactionVars

(* The buffer takes output only while a transaction runs, whatever failed in *)
(* the one before, and what it took is shown by a ghostty that the           *)
(* transaction commits to (rio loses it).                                    *)
OutputKept ==
  /\ buffering => InProgress
  /\ tx.outcome = "committed" /\ tx.to = Ghostty => output \notin {"held", "lost"}

(* A terminal creation that waits for a transaction is carried out or        *)
(* rejected, and not left to its time limit.                                 *)
CreationsSettle ==
  \A q \in Creations : queue[q] = "queued" ~> queue[q] \in {"created", "rejected"}
===============================================================================
