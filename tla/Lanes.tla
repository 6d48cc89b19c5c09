-------------------------------- MODULE Lanes --------------------------------
(***************************************************************************)
(* LaneManager and LaneRegistry (lanes/index.ts, lanes/registry.ts,        *)
(* lanes/sharing.ts) with the worktree operations of lanes/worktree.ts and *)
(* the executeInLane operation of lanes/par.ts.                            *)
(*                                                                         *)
(* Every operation but reconcileOrphans runs under the lane's lock, so at  *)
(* most one is in progress per lane (LaneLock): job[l] is the await at     *)
(* which it stands. Operations whose locked body never awaits are single   *)
(* actions. reconcileOrphans takes no lock and works from a snapshot.      *)
(*                                                                         *)
(* Events published on the bus change no lane state; an await on one is    *)
(* kept as a point where others interleave. Directories can disappear and  *)
(* PTYs can start without the manager: the actions under Environment. A    *)
(* PTY that exits by itself is one whose termination has nothing to do.    *)
(***************************************************************************)
EXTENDS Naturals, FiniteSets, LaneTable

CONSTANTS Lanes,       (* lane ids                                          *)
          Agents,      (* agents that attach to lanes                       *)
          StaleLanes,  (* ids of an earlier process: never generated again  *)
          Capacity     (* LaneRegistry's capacityLimit                      *)

ASSUME LanesAssumption ==
  /\ StaleLanes \subseteq Lanes
  /\ Capacity \in Nat

VARIABLES state,     (* lane -> its state, absent before it is registered   *)
          worktree,  (* lane -> its record has a worktreePath                *)
          agents,    (* lane -> attachedAgents                               *)
          job,       (* lane -> where the lock's holder stands, or free      *)
          dirs,      (* lanes whose worktree directory exists on disk        *)
          ptys,      (* lanes with a live PTY                                *)
          rec,       (* the reconciliation: where it stands and its snapshot *)
          lost       (* history: directories deleted behind the manager      *)

vars == <<state, worktree, agents, job, dirs, ptys, rec, lost>>

Jobs == {"free", "create.emit", "provision.add", "provision.verify", "provision.fail",
         "exec.run", "cleanup.ptys", "cleanup.worktree", "cleanup.close", "return"}

NoRec == [at |-> "idle", owners |-> {}, todo |-> {}]

TypeOK ==
  /\ state \in [Lanes -> LaneState \cup {"absent"}]
  /\ worktree \in [Lanes -> BOOLEAN]
  /\ agents \in [Lanes -> SUBSET Agents]
  /\ job \in [Lanes -> Jobs]
  /\ dirs \subseteq Lanes
  /\ ptys \subseteq Lanes
  /\ rec \in [at : {"idle", "dirs", "ptys"}, owners : SUBSET Lanes, todo : SUBSET Lanes]
  /\ lost \subseteq Lanes

Init ==
  /\ state = [l \in Lanes |-> "absent"]
  /\ worktree = [l \in Lanes |-> FALSE]
  /\ agents = [l \in Lanes |-> {}]
  /\ job = [l \in Lanes |-> "free"]
  /\ dirs \in SUBSET StaleLanes
  /\ ptys = {}
  /\ rec = NoRec
  /\ lost = {}

-------------------------------------------------------------------------------
(* Helpers *)

Active == {l \in Lanes : state[l] \notin {"absent", "closed"}}

Goto(l, from, to) ==
  /\ job[l] = from
  /\ job' = [job EXCEPT ![l] = to]

(* Fault: the event is stored where its target state belongs. *)
StoreEvent(l, event) ==
  /\ \E to \in LaneState : <<state[l], event, to>> \in Table
  /\ state' = [state EXCEPT ![l] = event]

(* transition() and registry.update({state}); without a row it throws first. *)
Transition(l, event) ==
  \E to \in LaneState :
    /\ <<state[l], event, to>> \in Table
    /\ state' = [state EXCEPT ![l] = to]

-------------------------------------------------------------------------------
(* create *)

(* A new id, and LaneRegistry.register does not throw. *)
MayRegister(l) ==
  state[l] = "absent" /\ l \notin StaleLanes /\ Cardinality(Active) < Capacity

Create(l) ==
  /\ MayRegister(l)
  /\ state' = [state EXCEPT ![l] = "new"]
  /\ Goto(l, "free", "create.emit")
  /\ UNCHANGED <<worktree, agents, dirs, ptys, rec, lost>>

CreateContinues(l) ==
  /\ Goto(l, "create.emit", "return")
  /\ Transition(l, "create")
  /\ UNCHANGED <<worktree, agents, dirs, ptys, rec, lost>>

(* The last await of an operation (an event) is over: the lock is released. *)
Return(l) ==
  /\ Goto(l, "return", "free")
  /\ UNCHANGED <<state, worktree, agents, dirs, ptys, rec, lost>>

-------------------------------------------------------------------------------
(* provision *)

Provision(l) ==
  /\ state[l] = "provisioning"
  /\ Goto(l, "free", "provision.add")
  /\ UNCHANGED <<state, worktree, agents, dirs, ptys, rec, lost>>

(* git worktree add, which replaces a leftover directory. *)
AddWorktree(l) ==
  /\ Goto(l, "provision.add", "provision.verify")
  /\ dirs' = dirs \cup {l}
  /\ UNCHANGED <<state, worktree, agents, ptys, rec, lost>>

(* git failed; removing the partial directory is best effort. *)
AddWorktreeFails(l) ==
  /\ Goto(l, "provision.add", "provision.fail")
  /\ dirs' \in {dirs \ {l}, dirs \cup {l}}
  /\ UNCHANGED <<state, worktree, agents, ptys, rec, lost>>

(* Fault: the path is not recorded. *)
ProvisionForgetsPath(l) ==
  /\ l \in dirs
  /\ Goto(l, "provision.verify", "return")
  /\ Transition(l, "provision_complete")
  /\ UNCHANGED <<worktree, agents, dirs, ptys, rec, lost>>

ProvisionCompletes(l) ==
  /\ l \in dirs
  /\ Goto(l, "provision.verify", "return")
  /\ Transition(l, "provision_complete")
  /\ worktree' = [worktree EXCEPT ![l] = TRUE]
  /\ UNCHANGED <<agents, dirs, ptys, rec, lost>>

ProvisionFails(l) ==
  /\ \/ Goto(l, "provision.fail", "return")
     \/ l \notin dirs /\ Goto(l, "provision.verify", "return")
  /\ Transition(l, "provision_failed")
  /\ UNCHANGED <<worktree, agents, dirs, ptys, rec, lost>>

-------------------------------------------------------------------------------
(* attach, detach, share: locked bodies without an await *)

Attach(l, a) ==
  /\ job[l] = "free"
  /\ l \in Active
  /\ a \notin agents[l]
  /\ agents' = [agents EXCEPT ![l] = @ \cup {a}]
  /\ UNCHANGED <<state, worktree, job, dirs, ptys, rec, lost>>

Detach(l, a) ==
  /\ job[l] = "free"
  /\ a \in agents[l]
  /\ agents' = [agents EXCEPT ![l] = @ \ {a}]
  /\ IF state[l] = "shared" /\ agents[l] = {a}
       THEN Transition(l, "unshare")
       ELSE UNCHANGED state
  /\ UNCHANGED <<worktree, job, dirs, ptys, rec, lost>>

Share(l) ==
  /\ job[l] = "free"
  /\ Transition(l, "share")
  /\ UNCHANGED <<worktree, agents, job, dirs, ptys, rec, lost>>

-------------------------------------------------------------------------------
(* executeInLane. That a par task is bound is ParTasks' guard. A shared lane *)
(* passes the operation's own check but has no start_running row: it throws. *)

Exec(l) ==
  /\ state[l] \in {"ready", "shared"}
  /\ Goto(l, "free", "exec.run")
  /\ Transition(l, "start_running")
  /\ UNCHANGED <<worktree, agents, dirs, ptys, rec, lost>>

(* Fault: the error path does not set the lane ready again. *)
ExecFailsRunning(l) ==
  /\ Goto(l, "exec.run", "return")
  /\ UNCHANGED <<state, worktree, agents, dirs, ptys, rec, lost>>

(* The command exits, times out, or fails to spawn; the lane may have been  *)
(* closed by then, and transition() throws.                                 *)
ExecEnds(l) ==
  /\ Goto(l, "exec.run", "return")
  /\ IF state[l] = "running" THEN Transition(l, "command_complete") ELSE UNCHANGED state
  /\ UNCHANGED <<worktree, agents, dirs, ptys, rec, lost>>

-------------------------------------------------------------------------------
(* cleanup *)

(* A shared lane with agents needs force, which detaches them and unshares. *)
Cleanup(l, force) ==
  LET guarded == state[l] = "shared" /\ agents[l] # {}
      from    == IF guarded THEN "ready" ELSE state[l]
      event   == IF state[l] = "cleaning" THEN "cleanup_complete" ELSE "request_cleanup"
      next    == IF state[l] = "cleaning" THEN "return" ELSE "cleanup.ptys"
  IN /\ guarded => force
     /\ Goto(l, "free", next)
     /\ \E to \in LaneState :
          /\ <<from, event, to>> \in Table
          /\ state' = [state EXCEPT ![l] = to]
     /\ agents' = [agents EXCEPT ![l] = IF guarded THEN {} ELSE @]
     /\ UNCHANGED <<worktree, dirs, ptys, rec, lost>>

(* Fault: no timeout, the cleanup waits until its PTYs are gone. *)
AwaitPtys(l) ==
  /\ l \notin ptys
  /\ Goto(l, "cleanup.ptys", "cleanup.worktree")
  /\ UNCHANGED <<state, worktree, agents, dirs, ptys, rec, lost>>

(* The PTYs are terminated, or the termination fails or times out. *)
TerminatePtys(l) ==
  /\ Goto(l, "cleanup.ptys", "cleanup.worktree")
  /\ ptys' \in {ptys, ptys \ {l}}
  /\ UNCHANGED <<state, worktree, agents, dirs, rec, lost>>

(* Fault: a failure of removeWorktree ends the cleanup. *)
RemoveWorktreeThrows(l) ==
  /\ worktree[l]
  /\ \/ Goto(l, "cleanup.worktree", "cleanup.close") /\ dirs' = dirs \ {l}
     \/ Goto(l, "cleanup.worktree", "return") /\ dirs' = dirs
  /\ UNCHANGED <<state, worktree, agents, ptys, rec, lost>>

(* removeWorktree: its failures are swallowed. *)
RemoveWorktree(l) ==
  /\ worktree[l]
  /\ Goto(l, "cleanup.worktree", "cleanup.close")
  /\ dirs' \in {dirs, dirs \ {l}}
  /\ UNCHANGED <<state, worktree, agents, ptys, rec, lost>>

(* The record is updated; the final transition throws if a reconciliation   *)
(* closed the lane during the awaits.                                       *)
CloseLane(l) ==
  /\ \/ Goto(l, "cleanup.close", "return")
     \/ ~worktree[l] /\ Goto(l, "cleanup.worktree", "return")
  /\ worktree' = [worktree EXCEPT ![l] = FALSE]
  /\ IF state[l] = "cleaning" THEN Transition(l, "cleanup_complete") ELSE UNCHANGED state
  /\ UNCHANGED <<agents, dirs, ptys, rec, lost>>

-------------------------------------------------------------------------------
(* reconcileOrphans *)

(* Fault: lanes still being provisioned are not known. *)
KnownRecorded == {l \in Active : worktree[l]}

(* knownLaneIds, from the snapshot getActive(). *)
Known == Active

(* Fault: the snapshot's records without a path count as orphans, too. *)
OwnersUnchecked == Active

(* The snapshot's records with a worktreePath. *)
Owners == {l \in Active : worktree[l]}

(* getActive() and readdirSync(), in one synchronous stretch. *)
Reconcile ==
  /\ rec.at = "idle"
  /\ rec' = [at |-> "dirs", owners |-> Owners, todo |-> dirs \ Known]
  /\ UNCHANGED <<state, worktree, agents, job, dirs, ptys, lost>>

RemoveOrphanDir(l) ==
  /\ rec.at = "dirs"
  /\ l \in rec.todo
  /\ rec' = [rec EXCEPT !.todo = @ \ {l}]
  /\ dirs' \in {dirs, dirs \ {l}}
  /\ UNCHANGED <<state, worktree, agents, job, ptys, lost>>

(* Fault: the PTYs of every registered lane are orphans. *)
Registered == {l \in Lanes : state[l] # "absent"}

(* The lanes whose PTYs phase 3 terminates. *)
Closed == {l \in Lanes : state[l] = "closed"}

(* Phase 1b, from the stale snapshot: S is all of them unless time is up. *)
CloseOrphanRecords ==
  /\ rec.at = "dirs"
  /\ rec.todo = {}
  /\ \E S \in SUBSET (rec.owners \ dirs) :
       /\ state' = [l \in Lanes |-> IF l \in S THEN "closed" ELSE state[l]]
       /\ worktree' = [l \in Lanes |-> worktree[l] /\ l \notin S]
       /\ rec' = IF S = rec.owners \ dirs
                   THEN [at |-> "ptys", owners |-> {},
                         todo |-> Closed']
                   ELSE NoRec
  /\ UNCHANGED <<agents, job, dirs, ptys, lost>>

TerminateOrphanPty(l) ==
  /\ rec.at = "ptys"
  /\ l \in rec.todo
  /\ rec' = [rec EXCEPT !.todo = @ \ {l}]
  /\ ptys' \in {ptys, ptys \ {l}}
  /\ UNCHANGED <<state, worktree, agents, job, dirs, lost>>

(* All closed lanes are done, or time is up. *)
ReconcileEnds ==
  /\ rec.at = "ptys"
  /\ rec' = NoRec
  /\ UNCHANGED <<state, worktree, agents, job, dirs, ptys, lost>>

-------------------------------------------------------------------------------
(* Environment *)

(* Someone deletes a lane's worktree directory behind the manager's back. *)
LoseDir(l) ==
  /\ l \in Active \cap dirs
  /\ dirs' = dirs \ {l}
  /\ lost' = lost \cup {l}
  /\ UNCHANGED <<state, worktree, agents, job, ptys, rec>>

(* A PTY is spawned for a lane in use, at any moment. *)
PtyStarts(l) ==
  /\ l \in Active
  /\ ptys' = ptys \cup {l}
  /\ UNCHANGED <<state, worktree, agents, job, dirs, rec, lost>>

-------------------------------------------------------------------------------
(* Steps that follow without a new request. *)
Continue(l) ==
  \/ CreateContinues(l) \/ Return(l)
  \/ AddWorktree(l) \/ AddWorktreeFails(l) \/ ProvisionCompletes(l) \/ ProvisionFails(l)
  \/ ExecEnds(l)
  \/ TerminatePtys(l) \/ RemoveWorktree(l) \/ CloseLane(l)

Request(l) ==
  \/ Create(l) \/ Provision(l) \/ Share(l) \/ Exec(l)
  \/ \E force \in BOOLEAN : Cleanup(l, force)
  \/ \E a \in Agents : Attach(l, a) \/ Detach(l, a)

ReconcileContinues ==
  \/ \E l \in Lanes : RemoveOrphanDir(l) \/ TerminateOrphanPty(l)
  \/ CloseOrphanRecords
  \/ ReconcileEnds

Environment(l) == LoseDir(l) \/ PtyStarts(l)

LanesNext ==
  \/ \E l \in Lanes : Request(l) \/ Continue(l) \/ Environment(l)
  \/ Reconcile
  \/ ReconcileContinues

Spec == Init /\ [][LanesNext]_vars

(* Awaited promises settle: git, the bus and the par process end, the PTY    *)
(* and exec timeouts fire, and the event loop resumes whoever awaited them.  *)
Fairness == (\A l \in Lanes : WF_vars(Continue(l))) /\ WF_vars(ReconcileContinues)

FairSpec == Spec /\ Fairness

-------------------------------------------------------------------------------
(* Every change of a lane's state is a row of the transition table, or the   *)
(* closing of a lane whose worktree is gone; above all, nothing leaves       *)
(* closed, although provision and executeInLane write states they computed   *)
(* before awaits and reconcileOrphans closes lanes from a stale snapshot     *)
(* without their lock.                                                       *)
Lifecycle == INSTANCE LaneLifecycle

FollowsLifecycle == Lifecycle!Spec

(* Whenever a lane's lock is free its state is a resting one: no operation,  *)
(* not even one that failed or was overtaken by a reconciliation, leaves a   *)
(* lane new, running or cleaning (so cleanup's branch for a lane that is     *)
(* already cleaning is never taken).                                         *)
IdleLanesAtRest ==
  \A l \in Lanes :
    job[l] = "free" => state[l] \in {"absent", "provisioning", "ready", "shared", "closed"}

(* The record and the state agree: a lane that can run commands has a        *)
(* worktree, and one that is closed or still being set up has none.          *)
WorktreeRecorded ==
  \A l \in Lanes :
    /\ state[l] \in {"ready", "running", "shared"} => worktree[l]
    /\ state[l] \in {"absent", "new", "provisioning", "closed"} => ~worktree[l]

(* The record and the disk agree: a recorded directory exists unless it was  *)
(* deleted behind the manager's back or the lane's own cleanup just did. In  *)
(* particular no reconciliation deletes it.                                  *)
WorktreeExists ==
  \A l \in Lanes :
    worktree[l] => l \in dirs \/ l \in lost \/ job[l] = "cleanup.close"

(* A reconciliation only ever has directories on its list that no live lane  *)
(* owns, also for lanes created and provisioned after its snapshot.          *)
ReconcileSparesLiveLanes ==
  rec.at = "dirs" => rec.todo \cap Active = {}

(* LaneRegistry's capacity holds although only register checks it.           *)
WithinCapacity == Cardinality(Active) <= Capacity

(* The manager terminates PTYs only of lanes that are being or were closed:  *)
(* neither a cleanup overtaken by a reconciliation nor a reconciliation that *)
(* walks its list of closed lanes reaches a lane in use.                     *)
PtysOfLiveLanesKept ==
  [][\A l \in ptys \ ptys' : state[l] \in {"cleaning", "closed"}]_vars

(* A cleanup that started closes the lane, whatever fails or times out in    *)
(* it and whoever interferes.                                                *)
CleanupCloses == \A l \in Lanes : state[l] = "cleaning" ~> state[l] = "closed"

(* No operation keeps its lane's lock forever.                               *)
LockReleased == \A l \in Lanes : job[l] # "free" ~> job[l] = "free"
===============================================================================
