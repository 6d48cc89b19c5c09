------------------------------ MODULE PtyManager ------------------------------
(***************************************************************************)
(* The PTY manager (pty/index.ts) with its registry, state machine, idle   *)
(* monitor and signals: spawning at the capacity, terminations of one PTY  *)
(* that overlap, shells that exit by themselves or ignore SIGTERM, and the *)
(* reconciliation that kills shells no record claims while all that goes   *)
(* on. The runtime may crash and restart: the shells stay, the maps do not.*)
(*                                                                         *)
(* A PTY stands for its id, its process and the pid of that: no pid is     *)
(* used again. Every shell has a name that the reconciliation looks for.   *)
(***************************************************************************)
EXTENDS Naturals, FiniteSets

CONSTANTS Ptys, Calls,   (* Calls: terminations that may run at a time      *)
          Capacity, MaxRestarts

ASSUME PtyAssumption == Ptys # {} /\ Capacity \in Nat /\ MaxRestarts \in Nat

VARIABLES process,    (* of a PTY; "asked" by SIGTERM, "killed" by SIGKILL  *)
          record,     (* its state in the registry, or "none"               *)
          lifecycle,  (* the state of its state machine, or "none"          *)
          call,       (* a termination: where it waits, and for which PTY   *)
          rec,        (* the reconciliation, and the pids it has to look at *)
          epoch       (* the restarts so far                                *)

vars == <<process, record, lifecycle, call, rec, epoch>>

State == {"none", "active", "throttled", "errored"}

(* The maps of the registry and of the manager never disagree. *)
TypeOK ==
  /\ process \in [Ptys -> {"none", "live", "asked", "killed", "dead"}]
  /\ record \in [Ptys -> State]
  /\ lifecycle = record
  /\ call \in [Calls -> [at : {"idle", "grace", "kill"}, pty : Ptys]]
  /\ rec \in [at : {"idle", "ps", "list", "grace"}, pids : SUBSET Ptys, pid : Ptys]
  /\ epoch \in 0..MaxRestarts

NoPty == CHOOSE p \in Ptys : TRUE   (* what stands where none is meant *)

NoCall == [at |-> "idle", pty |-> NoPty]
NoReconciliation == [at |-> "idle", pids |-> {}, pid |-> NoPty]

Init ==
  /\ process = [p \in Ptys |-> "none"]
  /\ record = [p \in Ptys |-> "none"]
  /\ lifecycle = [p \in Ptys |-> "none"]
  /\ call = [c \in Calls |-> NoCall]
  /\ rec = NoReconciliation
  /\ epoch = 0

-------------------------------------------------------------------------------
Registered == {p \in Ptys : record[p] # "none"}
Alive(p) == process[p] \in {"live", "asked", "killed"}

(* apply and update: the state machine and the record move together. *)
Move(ps, s) ==
  /\ record' = [p \in Ptys |-> IF p \in ps THEN s ELSE record[p]]
  /\ lifecycle' = [p \in Ptys |-> IF p \in ps THEN s ELSE lifecycle[p]]

(* Fault: the record is not updated. *)
MoveLifecycle(ps, s) ==
  /\ lifecycle' = [p \in Ptys |-> IF p \in ps THEN s ELSE lifecycle[p]]
  /\ UNCHANGED record

(* The signal reaches a process that is there. *)
Asked(p) == [process EXCEPT ![p] = IF @ = "live" THEN "asked" ELSE @]
Killed(p) == [process EXCEPT ![p] = IF Alive(p) THEN "killed" ELSE @]

(* spawnPty starts the shell before the registry refuses it for want of      *)
(* room; the shell is left running then.                                     *)
Spawn(p) ==
  /\ process[p] = "none"
  /\ process' = [process EXCEPT ![p] = "live"]
  /\ Move(IF Cardinality(Registered) < Capacity THEN {p} ELSE {}, "active")
  /\ UNCHANGED <<call, rec, epoch>>

(* Fault: a write that fails does not update the record. *)
WriteInputUnrecorded(p) ==
  /\ record[p] \in {"active", "throttled"}
  /\ process[p] = "dead"
  /\ lifecycle[p] = "active"
  /\ MoveLifecycle({p}, "errored")
  /\ UNCHANGED <<process, call, rec, epoch>>

(* A write that fails, for the shell has exited. *)
WriteInput(p) ==
  /\ record[p] \in {"active", "throttled"}
  /\ process[p] = "dead"
  /\ lifecycle[p] = "active"
  /\ Move({p}, "errored")
  /\ UNCHANGED <<process, call, rec, epoch>>

RecordOutput(p) ==
  /\ record[p] = "throttled" /\ lifecycle[p] = "throttled"
  /\ Move({p}, "active")
  /\ UNCHANGED <<process, call, rec, epoch>>

(* checkIdle throttles those that have been silent for their time. *)
CheckIdle ==
  /\ \E ps \in SUBSET {p \in Ptys : record[p] = "active" /\ lifecycle[p] = "active"} :
       ps # {} /\ Move(ps, "throttled")
  /\ UNCHANGED <<process, call, rec, epoch>>

-------------------------------------------------------------------------------
(* terminate *)

Terminate(c, p) ==
  /\ call[c].at = "idle"
  /\ record[p] # "none"
  /\ process' = Asked(p)
  /\ call' = [call EXCEPT ![c] = [at |-> "grace", pty |-> p]]
  /\ UNCHANGED <<record, lifecycle, rec, epoch>>

(* Step 5: the record and the maps are removed, if they are still there. *)
CleansUp(c) ==
  /\ Move({call[c].pty}, "none")
  /\ call' = [call EXCEPT ![c] = NoCall]

(* The process has exited, or the grace period is over and it is killed. *)
GraceEnds(c) ==
  /\ call[c].at = "grace"
  /\ IF Alive(call[c].pty)
       THEN /\ process' = Killed(call[c].pty)
            /\ call' = [call EXCEPT ![c].at = "kill"]
            /\ UNCHANGED <<record, lifecycle>>
       ELSE CleansUp(c) /\ UNCHANGED process
  /\ UNCHANGED <<rec, epoch>>

(* The process has exited, or the second for that is over. *)
KillEnds(c) ==
  /\ call[c].at = "kill"
  /\ CleansUp(c)
  /\ UNCHANGED <<process, rec, epoch>>

-------------------------------------------------------------------------------
(* reconcileOrphans *)

(* ps lists the shells of this runtime, and those of an earlier one. *)
Reconcile ==
  /\ rec.at = "idle"
  /\ rec' = [rec EXCEPT !.at = "ps", !.pids = {p \in Ptys : Alive(p)}]
  /\ UNCHANGED <<process, record, lifecycle, call, epoch>>

(* Fault: only the pids of active PTYs count. *)
TrackedIfActive(p) == record[p] = "active"

(* A record claims the pid. *)
Tracked(p) == record[p] # "none"

ScanEnds ==
  /\ rec.at = "ps"
  /\ rec' = [rec EXCEPT !.at = "list", !.pids = {p \in @ : ~Tracked(p)}]
  /\ UNCHANGED <<process, record, lifecycle, call, epoch>>

(* The next pid is claimed meanwhile or gone, or SIGTERM is sent. *)
NextOrphan(p) ==
  /\ rec.at = "list" /\ p \in rec.pids
  /\ IF Tracked(p) \/ ~Alive(p)
       THEN UNCHANGED process /\ rec' = [rec EXCEPT !.pids = @ \ {p}]
       ELSE /\ process' = Asked(p)
            /\ rec' = [at |-> "grace", pids |-> rec.pids \ {p}, pid |-> p]
  /\ UNCHANGED <<record, lifecycle, call, epoch>>

(* Fault: the orphan is not killed after its grace period. *)
OrphanSpared ==
  /\ rec.at = "grace"
  /\ rec' = [rec EXCEPT !.at = "list", !.pid = NoPty]
  /\ UNCHANGED <<process, record, lifecycle, call, epoch>>

OrphanGraceEnds ==
  /\ rec.at = "grace"
  /\ process' = Killed(rec.pid)
  /\ rec' = [rec EXCEPT !.at = "list", !.pid = NoPty]
  /\ UNCHANGED <<record, lifecycle, call, epoch>>

ReconcileEnds ==
  /\ rec.at = "list" /\ rec.pids = {}
  /\ rec' = NoReconciliation
  /\ UNCHANGED <<process, record, lifecycle, call, epoch>>

-------------------------------------------------------------------------------
(* A shell may exit by itself, and does so unnoticed. It may ignore SIGTERM. *)
Exits(p) ==
  /\ process[p] \in {"live", "asked"}
  /\ process' = [process EXCEPT ![p] = "dead"]
  /\ UNCHANGED <<record, lifecycle, call, rec, epoch>>

Dies(p) ==
  /\ process[p] = "killed"
  /\ process' = [process EXCEPT ![p] = "dead"]
  /\ UNCHANGED <<record, lifecycle, call, rec, epoch>>

(* The runtime crashes and starts again: its maps are empty, its calls gone. *)
Restart ==
  /\ epoch < MaxRestarts
  /\ epoch' = epoch + 1
  /\ Move(Ptys, "none")
  /\ call' = [c \in Calls |-> NoCall]
  /\ rec' = NoReconciliation
  /\ UNCHANGED process

Reconciling == ScanEnds \/ (\E p \in Ptys : NextOrphan(p)) \/ OrphanGraceEnds \/ ReconcileEnds

Next ==
  \/ \E p \in Ptys : Spawn(p) \/ WriteInput(p) \/ RecordOutput(p)
  \/ CheckIdle
  \/ \E c \in Calls : (\E p \in Ptys : Terminate(c, p)) \/ GraceEnds(c) \/ KillEnds(c)
  \/ Reconcile \/ Reconciling
  \/ \E p \in Ptys : Exits(p) \/ Dies(p)
  \/ Restart

Spec == Init /\ [][Next]_vars

(* Timers fire, ps ends, and the kernel ends what SIGKILL hit. *)
FairSpec ==
  /\ Spec
  /\ \A c \in Calls : WF_vars(GraceEnds(c) \/ KillEnds(c))
  /\ WF_vars(Reconciling)
  /\ \A p \in Ptys : WF_vars(Dies(p))

-------------------------------------------------------------------------------
(* Properties *)

Terminating(p) == \E c \in Calls : call[c].at # "idle" /\ call[c].pty = p

(* Unless the runtime crashes, a PTY leaves the registry only when its shell *)
(* has exited or been killed, and while it is there nothing signals its      *)
(* shell but a termination of it: no reconciliation that read the process    *)
(* table before it was spawned or throttled does.                            *)
KilledWithItsRecord ==
  [][\A p \in Registered :
       epoch' = epoch =>
         /\ record'[p] = "none" => process'[p] \in {"killed", "dead"}
         /\ process'[p] # process[p] /\ process'[p] \in {"asked", "killed"}
              => Terminating(p)']_vars

(* The shell of a PTY that is terminated, and every shell without a record   *)
(* that a reconciliation found, is dead in the end, also when two            *)
(* terminations of it overlap, and the record is gone; a crash of the        *)
(* runtime cuts this short.                                                  *)
Found(p) == rec.at = "list" /\ p \in rec.pids

ShellsEnd ==
  \A p \in Ptys, e \in 0..MaxRestarts :
    (epoch = e /\ (Terminating(p) \/ Found(p))) ~>
      (epoch # e \/ (process[p] = "dead" /\ record[p] = "none"))
===============================================================================
