----------------------------- MODULE LanesProofs -----------------------------
(***************************************************************************)
(* Proofs about Lanes, for every set of lanes and agents and every         *)
(* capacity: its safety invariants, and that it implements LaneLifecycle.  *)
(***************************************************************************)
EXTENDS Lanes, FiniteSetTheorems, TLAPS

(* Where an operation stands determines the states its lane can be in; only *)
(* the states in which a lane has a worktree can turn closed underneath it. *)
JobMatchesState ==
  \A l \in Lanes :
    /\ job[l] = "free" => state[l] \in {"absent", "provisioning", "ready", "shared", "closed"}
    /\ job[l] = "create.emit" => state[l] = "new"
    /\ job[l] \in {"provision.add", "provision.verify", "provision.fail"} =>
         state[l] = "provisioning"
    /\ job[l] = "exec.run" => state[l] \in {"running", "closed"}
    /\ job[l] \in {"cleanup.ptys", "cleanup.worktree", "cleanup.close"} =>
         state[l] \in {"cleaning", "closed"}
    /\ job[l] = "return" => state[l] \in {"provisioning", "ready", "closed"}

CleaningHasWorktree == \A l \in Lanes : state[l] = "cleaning" => worktree[l]

AbsentDirsAreStale == \A l \in dirs : state[l] = "absent" => l \in StaleLanes

(* What the snapshot of a reconciliation still says of the present. *)
SnapshotHolds ==
  /\ \A l \in rec.owners : state[l] \in Provisioned \cup {"closed"}
  /\ rec.at = "dirs" =>
       \A l \in rec.todo : state[l] = "closed" \/ (state[l] = "absent" /\ l \in StaleLanes)
  /\ rec.at = "ptys" => \A l \in rec.todo : state[l] = "closed"

RecordInv == JobMatchesState /\ WorktreeRecorded /\ CleaningHasWorktree

DiskInv == WorktreeExists /\ AbsentDirsAreStale

IInv == TypeOK /\ RecordInv /\ DiskInv /\ SnapshotHolds

-------------------------------------------------------------------------------
(* What the transition table allows for each event the operations fire.     *)
LEMMA Rows ==
  ASSUME NEW from, NEW event, NEW to, <<from, event, to>> \in Table
  PROVE  /\ to \in LaneState
         /\ event = "create" => from = "new" /\ to = "provisioning"
         /\ event = "provision_complete" => from = "provisioning" /\ to = "ready"
         /\ event = "provision_failed" => from = "provisioning" /\ to = "closed"
         /\ event = "start_running" => from = "ready" /\ to = "running"
         /\ event = "command_complete" => from = "running" /\ to = "ready"
         /\ event = "share" => from = "ready" /\ to = "shared"
         /\ event = "unshare" => from = "shared" /\ to = "ready"
         /\ event = "request_cleanup" =>
              from \in {"ready", "running", "blocked", "shared", "cleaning"} /\ to = "cleaning"
         /\ event = "cleanup_complete" => from = "cleaning" /\ to = "closed"
BY DEF Table, LaneState

LEMMA Fires ==
  ASSUME TypeOK, NEW l \in Lanes, NEW event, Transition(l, event)
  PROVE  /\ event = "create" =>
              state[l] = "new" /\ state' = [state EXCEPT ![l] = "provisioning"]
         /\ event = "provision_complete" =>
              state[l] = "provisioning" /\ state' = [state EXCEPT ![l] = "ready"]
         /\ event = "provision_failed" =>
              state[l] = "provisioning" /\ state' = [state EXCEPT ![l] = "closed"]
         /\ event = "start_running" =>
              state[l] = "ready" /\ state' = [state EXCEPT ![l] = "running"]
         /\ event = "command_complete" => state' = [state EXCEPT ![l] = "ready"]
         /\ event = "share" => state[l] = "ready" /\ state' = [state EXCEPT ![l] = "shared"]
         /\ event = "unshare" => state' = [state EXCEPT ![l] = "ready"]
         /\ event = "cleanup_complete" => state' = [state EXCEPT ![l] = "closed"]
<1>1. PICK to \in LaneState : <<state[l], event, to>> \in Table /\ state' = [state EXCEPT ![l] = to]
  BY DEF Transition
<1> QED BY <1>1, Rows

LEMMA InitEstablishes == Init => IInv
BY LanesAssumption
   DEF Init, IInv, TypeOK, NoRec, LaneState, Jobs, RecordInv, JobMatchesState,
       WorktreeRecorded, CleaningHasWorktree, DiskInv, WorktreeExists,
       AbsentDirsAreStale, SnapshotHolds

(* One step per action; under it the type, what the record says, what the   *)
(* disk holds, and what the snapshot of a reconciliation is still good for. *)
LEMMA StepPreserves == IInv /\ [LanesNext]_vars => IInv'
<1> SUFFICES ASSUME IInv, [LanesNext]_vars PROVE IInv'
  OBVIOUS
<1> USE DEF IInv, Goto
<1>1. ASSUME NEW l \in Lanes, Create(l) PROVE IInv'
  <2> USE <1>1 DEF Create, MayRegister
  <2>1. TypeOK'
    BY DEF TypeOK, LaneState, Jobs
  <2>2. RecordInv'
    BY DEF TypeOK, RecordInv, JobMatchesState, WorktreeRecorded, CleaningHasWorktree
  <2>3. DiskInv'
    BY DEF TypeOK, RecordInv, JobMatchesState, WorktreeRecorded, DiskInv, WorktreeExists,
           AbsentDirsAreStale
  <2>4. SnapshotHolds'
    BY DEF TypeOK, SnapshotHolds, Provisioned
  <2> QED BY <2>1, <2>2, <2>3, <2>4
<1>2. ASSUME NEW l \in Lanes, CreateContinues(l) PROVE IInv'
  <2>1. state[l] = "new" /\ state' = [state EXCEPT ![l] = "provisioning"]
    BY <1>2, Fires DEF CreateContinues
  <2> USE <1>2, <2>1 DEF CreateContinues
  <2>2. TypeOK'
    BY DEF TypeOK, LaneState, Jobs
  <2>3. RecordInv'
    BY DEF TypeOK, RecordInv, JobMatchesState, WorktreeRecorded, CleaningHasWorktree
  <2>4. DiskInv'
    BY DEF TypeOK, RecordInv, JobMatchesState, WorktreeRecorded, DiskInv, WorktreeExists,
           AbsentDirsAreStale
  <2>5. SnapshotHolds'
    BY DEF TypeOK, SnapshotHolds, Provisioned
  <2> QED BY <2>2, <2>3, <2>4, <2>5
<1>3. ASSUME NEW l \in Lanes, Return(l) PROVE IInv'
  <2> USE <1>3 DEF Return
  <2>1. TypeOK'
    BY DEF TypeOK, LaneState, Jobs
  <2>2. RecordInv'
    BY DEF TypeOK, RecordInv, JobMatchesState, WorktreeRecorded, CleaningHasWorktree
  <2>3. DiskInv'
    BY DEF TypeOK, RecordInv, JobMatchesState, WorktreeRecorded, DiskInv, WorktreeExists,
           AbsentDirsAreStale
  <2>4. SnapshotHolds'
    BY DEF TypeOK, SnapshotHolds, Provisioned
  <2> QED BY <2>1, <2>2, <2>3, <2>4
<1>4. ASSUME NEW l \in Lanes, Provision(l) PROVE IInv'
  <2> USE <1>4 DEF Provision
  <2>1. TypeOK'
    BY DEF TypeOK, LaneState, Jobs
  <2>2. RecordInv'
    BY DEF TypeOK, RecordInv, JobMatchesState, WorktreeRecorded, CleaningHasWorktree
  <2>3. DiskInv'
    BY DEF TypeOK, RecordInv, JobMatchesState, WorktreeRecorded, DiskInv, WorktreeExists,
           AbsentDirsAreStale
  <2>4. SnapshotHolds'
    BY DEF TypeOK, SnapshotHolds, Provisioned
  <2> QED BY <2>1, <2>2, <2>3, <2>4
<1>5. ASSUME NEW l \in Lanes, AddWorktree(l) PROVE IInv'
  <2> USE <1>5 DEF AddWorktree
  <2>1. TypeOK'
    BY DEF TypeOK, LaneState, Jobs
  <2>2. RecordInv'
    BY DEF TypeOK, RecordInv, JobMatchesState, WorktreeRecorded, CleaningHasWorktree
  <2>3. DiskInv'
    BY DEF TypeOK, RecordInv, JobMatchesState, WorktreeRecorded, DiskInv, WorktreeExists,
           AbsentDirsAreStale
  <2>4. SnapshotHolds'
    BY DEF TypeOK, SnapshotHolds, Provisioned
  <2> QED BY <2>1, <2>2, <2>3, <2>4
<1>6. ASSUME NEW l \in Lanes, AddWorktreeFails(l) PROVE IInv'
  <2> USE <1>6 DEF AddWorktreeFails
  <2>1. TypeOK'
    BY DEF TypeOK, LaneState, Jobs
  <2>2. RecordInv'
    BY DEF TypeOK, RecordInv, JobMatchesState, WorktreeRecorded, CleaningHasWorktree
  <2>3. DiskInv'
    BY DEF TypeOK, RecordInv, JobMatchesState, WorktreeRecorded, DiskInv, WorktreeExists,
           AbsentDirsAreStale
  <2>4. SnapshotHolds'
    BY DEF TypeOK, SnapshotHolds, Provisioned
  <2> QED BY <2>1, <2>2, <2>3, <2>4
<1>7. ASSUME NEW l \in Lanes, ProvisionCompletes(l) PROVE IInv'
  <2>1. state[l] = "provisioning" /\ state' = [state EXCEPT ![l] = "ready"]
    BY <1>7, Fires DEF ProvisionCompletes
  <2> USE <1>7, <2>1 DEF ProvisionCompletes
  <2>2. TypeOK'
    BY DEF TypeOK, LaneState, Jobs
  <2>3. RecordInv'
    BY DEF TypeOK, RecordInv, JobMatchesState, WorktreeRecorded, CleaningHasWorktree
  <2>4. DiskInv'
    BY DEF TypeOK, RecordInv, JobMatchesState, WorktreeRecorded, DiskInv, WorktreeExists,
           AbsentDirsAreStale
  <2>5. SnapshotHolds'
    BY DEF TypeOK, SnapshotHolds, Provisioned
  <2> QED BY <2>2, <2>3, <2>4, <2>5
<1>8. ASSUME NEW l \in Lanes, ProvisionFails(l) PROVE IInv'
  <2>1. state[l] = "provisioning" /\ state' = [state EXCEPT ![l] = "closed"]
    BY <1>8, Fires DEF ProvisionFails
  <2> USE <1>8, <2>1 DEF ProvisionFails
  <2>2. TypeOK'
    BY DEF TypeOK, LaneState, Jobs
  <2>3. RecordInv'
    BY DEF TypeOK, RecordInv, JobMatchesState, WorktreeRecorded, CleaningHasWorktree
  <2>4. DiskInv'
    BY DEF TypeOK, RecordInv, JobMatchesState, WorktreeRecorded, DiskInv, WorktreeExists,
           AbsentDirsAreStale
  <2>5. SnapshotHolds'
    BY DEF TypeOK, SnapshotHolds, Provisioned
  <2> QED BY <2>2, <2>3, <2>4, <2>5
<1>9. ASSUME NEW l \in Lanes, NEW a \in Agents, Attach(l, a) PROVE IInv'
  <2> USE <1>9 DEF Attach
  <2>1. TypeOK'
    BY DEF TypeOK, LaneState, Jobs
  <2>2. RecordInv'
    BY DEF TypeOK, RecordInv, JobMatchesState, WorktreeRecorded, CleaningHasWorktree
  <2>3. DiskInv'
    BY DEF TypeOK, RecordInv, JobMatchesState, WorktreeRecorded, DiskInv, WorktreeExists,
           AbsentDirsAreStale
  <2>4. SnapshotHolds'
    BY DEF TypeOK, SnapshotHolds, Provisioned
  <2> QED BY <2>1, <2>2, <2>3, <2>4
<1>10. ASSUME NEW l \in Lanes, NEW a \in Agents, Detach(l, a) PROVE IInv'
  <2>1. \/ state' = state
        \/ state[l] = "shared" /\ state' = [state EXCEPT ![l] = "ready"]
    BY <1>10, Fires DEF Detach
  <2> USE <1>10, <2>1 DEF Detach
  <2>2. TypeOK'
    BY DEF TypeOK, LaneState, Jobs
  <2>3. RecordInv'
    BY DEF TypeOK, RecordInv, JobMatchesState, WorktreeRecorded, CleaningHasWorktree
  <2>4. DiskInv'
    BY DEF TypeOK, RecordInv, JobMatchesState, WorktreeRecorded, DiskInv, WorktreeExists,
           AbsentDirsAreStale
  <2>5. SnapshotHolds'
    BY DEF TypeOK, SnapshotHolds, Provisioned
  <2> QED BY <2>2, <2>3, <2>4, <2>5
<1>11. ASSUME NEW l \in Lanes, Share(l) PROVE IInv'
  <2>1. state[l] = "ready" /\ state' = [state EXCEPT ![l] = "shared"]
    BY <1>11, Fires DEF Share
  <2> USE <1>11, <2>1 DEF Share
  <2>2. TypeOK'
    BY DEF TypeOK, LaneState, Jobs
  <2>3. RecordInv'
    BY DEF TypeOK, RecordInv, JobMatchesState, WorktreeRecorded, CleaningHasWorktree
  <2>4. DiskInv'
    BY DEF TypeOK, RecordInv, JobMatchesState, WorktreeRecorded, DiskInv, WorktreeExists,
           AbsentDirsAreStale
  <2>5. SnapshotHolds'
    BY DEF TypeOK, SnapshotHolds, Provisioned
  <2> QED BY <2>2, <2>3, <2>4, <2>5
<1>12. ASSUME NEW l \in Lanes, Exec(l) PROVE IInv'
  <2>1. state[l] = "ready" /\ state' = [state EXCEPT ![l] = "running"]
    BY <1>12, Fires DEF Exec
  <2> USE <1>12, <2>1 DEF Exec
  <2>2. TypeOK'
    BY DEF TypeOK, LaneState, Jobs
  <2>3. RecordInv'
    BY DEF TypeOK, RecordInv, JobMatchesState, WorktreeRecorded, CleaningHasWorktree
  <2>4. DiskInv'
    BY DEF TypeOK, RecordInv, JobMatchesState, WorktreeRecorded, DiskInv, WorktreeExists,
           AbsentDirsAreStale
  <2>5. SnapshotHolds'
    BY DEF TypeOK, SnapshotHolds, Provisioned
  <2> QED BY <2>2, <2>3, <2>4, <2>5
<1>13. ASSUME NEW l \in Lanes, ExecEnds(l) PROVE IInv'
  <2>1. \/ state[l] # "running" /\ state' = state
        \/ state[l] = "running" /\ state' = [state EXCEPT ![l] = "ready"]
    BY <1>13, Fires DEF ExecEnds
  <2> USE <1>13, <2>1 DEF ExecEnds
  <2>2. TypeOK'
    BY DEF TypeOK, LaneState, Jobs
  <2>3. RecordInv'
    BY DEF TypeOK, RecordInv, JobMatchesState, WorktreeRecorded, CleaningHasWorktree
  <2>4. DiskInv'
    BY DEF TypeOK, RecordInv, JobMatchesState, WorktreeRecorded, DiskInv, WorktreeExists,
           AbsentDirsAreStale
  <2>5. SnapshotHolds'
    BY DEF TypeOK, SnapshotHolds, Provisioned
  <2> QED BY <2>2, <2>3, <2>4, <2>5
<1>14. ASSUME NEW l \in Lanes, NEW force \in BOOLEAN, Cleanup(l, force) PROVE IInv'
  <2> DEFINE from  == IF state[l] = "shared" /\ agents[l] # {} THEN "ready" ELSE state[l]
             event == IF state[l] = "cleaning" THEN "cleanup_complete" ELSE "request_cleanup"
             next  == IF state[l] = "cleaning" THEN "return" ELSE "cleanup.ptys"
  <2>1. PICK to \in LaneState :
          <<from, event, to>> \in Table /\ state' = [state EXCEPT ![l] = to]
    BY <1>14 DEF Cleanup
  <2>2. /\ job' = [job EXCEPT ![l] = next]
        /\ agents' \in [Lanes -> SUBSET Agents]
        /\ UNCHANGED <<worktree, dirs, ptys, rec, lost>>
    BY <1>14 DEF Cleanup, TypeOK
  <2>3. /\ state[l] \in Provisioned
        /\ to = IF state[l] = "cleaning" THEN "closed" ELSE "cleaning"
    BY <2>1, Rows DEF Provisioned
  <2>4. job[l] = "free"
    BY <1>14 DEF Cleanup
  <2>5. state[l] \in {"ready", "shared"}
    BY <2>3, <2>4 DEF RecordInv, JobMatchesState, Provisioned
  <2> USE <2>1, <2>2, <2>3, <2>4, <2>5
  <2>6. TypeOK'
    BY DEF TypeOK, LaneState, Jobs
  <2>7. RecordInv'
    BY DEF TypeOK, RecordInv, JobMatchesState, WorktreeRecorded, CleaningHasWorktree
  <2>8. DiskInv'
    BY DEF TypeOK, RecordInv, JobMatchesState, WorktreeRecorded, DiskInv, WorktreeExists,
           AbsentDirsAreStale
  <2>9. SnapshotHolds'
    BY DEF TypeOK, SnapshotHolds, Provisioned
  <2> QED BY <2>6, <2>7, <2>8, <2>9
<1>15. ASSUME NEW l \in Lanes, TerminatePtys(l) PROVE IInv'
  <2> USE <1>15 DEF TerminatePtys
  <2>1. TypeOK'
    BY DEF TypeOK, LaneState, Jobs
  <2>2. RecordInv'
    BY DEF TypeOK, RecordInv, JobMatchesState, WorktreeRecorded, CleaningHasWorktree
  <2>3. DiskInv'
    BY DEF TypeOK, RecordInv, JobMatchesState, WorktreeRecorded, DiskInv, WorktreeExists,
           AbsentDirsAreStale
  <2>4. SnapshotHolds'
    BY DEF TypeOK, SnapshotHolds, Provisioned
  <2> QED BY <2>1, <2>2, <2>3, <2>4
<1>16. ASSUME NEW l \in Lanes, RemoveWorktree(l) PROVE IInv'
  <2> USE <1>16 DEF RemoveWorktree
  <2>1. TypeOK'
    BY DEF TypeOK, LaneState, Jobs
  <2>2. RecordInv'
    BY DEF TypeOK, RecordInv, JobMatchesState, WorktreeRecorded, CleaningHasWorktree
  <2>3. DiskInv'
    BY DEF TypeOK, RecordInv, JobMatchesState, WorktreeRecorded, DiskInv, WorktreeExists,
           AbsentDirsAreStale
  <2>4. SnapshotHolds'
    BY DEF TypeOK, SnapshotHolds, Provisioned
  <2> QED BY <2>1, <2>2, <2>3, <2>4
<1>17. ASSUME NEW l \in Lanes, CloseLane(l) PROVE IInv'
  <2>1. \/ state[l] # "cleaning" /\ state' = state
        \/ state[l] = "cleaning" /\ state' = [state EXCEPT ![l] = "closed"]
    BY <1>17, Fires DEF CloseLane
  <2> USE <1>17, <2>1 DEF CloseLane
  <2>2. TypeOK'
    BY DEF TypeOK, LaneState, Jobs
  <2>3. RecordInv'
    BY DEF TypeOK, RecordInv, JobMatchesState, WorktreeRecorded, CleaningHasWorktree
  <2>4. DiskInv'
    BY DEF TypeOK, RecordInv, JobMatchesState, WorktreeRecorded, DiskInv, WorktreeExists,
           AbsentDirsAreStale
  <2>5. SnapshotHolds'
    BY DEF TypeOK, SnapshotHolds, Provisioned
  <2> QED BY <2>2, <2>3, <2>4, <2>5
<1>18. ASSUME NEW l \in Lanes, RemoveOrphanDir(l) PROVE IInv'
  <2> USE <1>18 DEF RemoveOrphanDir
  <2>1. TypeOK'
    BY DEF TypeOK, LaneState, Jobs
  <2>2. RecordInv'
    BY DEF TypeOK, RecordInv, JobMatchesState, WorktreeRecorded, CleaningHasWorktree
  <2>3. DiskInv'
    BY DEF TypeOK, RecordInv, JobMatchesState, WorktreeRecorded, DiskInv, WorktreeExists,
           AbsentDirsAreStale, SnapshotHolds
  <2>4. SnapshotHolds'
    BY DEF TypeOK, SnapshotHolds, Provisioned
  <2> QED BY <2>1, <2>2, <2>3, <2>4
<1>19. ASSUME NEW l \in Lanes, TerminateOrphanPty(l) PROVE IInv'
  <2> USE <1>19 DEF TerminateOrphanPty
  <2>1. TypeOK'
    BY DEF TypeOK, LaneState, Jobs
  <2>2. RecordInv'
    BY DEF TypeOK, RecordInv, JobMatchesState, WorktreeRecorded, CleaningHasWorktree
  <2>3. DiskInv'
    BY DEF TypeOK, RecordInv, JobMatchesState, WorktreeRecorded, DiskInv, WorktreeExists,
           AbsentDirsAreStale
  <2>4. SnapshotHolds'
    BY DEF TypeOK, SnapshotHolds, Provisioned
  <2> QED BY <2>1, <2>2, <2>3, <2>4
<1>20. ASSUME NEW l \in Lanes, LoseDir(l) PROVE IInv'
  <2> USE <1>20 DEF LoseDir
  <2>1. TypeOK'
    BY DEF TypeOK, LaneState, Jobs, Active
  <2>2. RecordInv'
    BY DEF TypeOK, RecordInv, JobMatchesState, WorktreeRecorded, CleaningHasWorktree
  <2>3. DiskInv'
    BY DEF TypeOK, RecordInv, JobMatchesState, WorktreeRecorded, DiskInv, WorktreeExists,
           AbsentDirsAreStale, Active, LaneState
  <2>4. SnapshotHolds'
    BY DEF TypeOK, SnapshotHolds, Provisioned
  <2> QED BY <2>1, <2>2, <2>3, <2>4
<1>21. ASSUME NEW l \in Lanes, PtyStarts(l) PROVE IInv'
  <2> USE <1>21 DEF PtyStarts
  <2>1. TypeOK'
    BY DEF TypeOK, LaneState, Jobs
  <2>2. RecordInv'
    BY DEF TypeOK, RecordInv, JobMatchesState, WorktreeRecorded, CleaningHasWorktree
  <2>3. DiskInv'
    BY DEF TypeOK, RecordInv, JobMatchesState, WorktreeRecorded, DiskInv, WorktreeExists,
           AbsentDirsAreStale
  <2>4. SnapshotHolds'
    BY DEF TypeOK, SnapshotHolds, Provisioned
  <2> QED BY <2>1, <2>2, <2>3, <2>4
<1>22. ASSUME Reconcile PROVE IInv'
  <2> USE <1>22 DEF Reconcile, Known, Owners
  <2>1. TypeOK'
    BY DEF TypeOK, LaneState, Jobs, Active
  <2>2. RecordInv'
    BY DEF TypeOK, RecordInv, JobMatchesState, WorktreeRecorded, CleaningHasWorktree
  <2>3. DiskInv'
    BY DEF TypeOK, RecordInv, JobMatchesState, WorktreeRecorded, DiskInv, WorktreeExists,
           AbsentDirsAreStale
  <2>4. SnapshotHolds'
    BY DEF TypeOK, SnapshotHolds, RecordInv, WorktreeRecorded, DiskInv, AbsentDirsAreStale,
           Active, Provisioned, LaneState
  <2> QED BY <2>1, <2>2, <2>3, <2>4
<1>23. ASSUME CloseOrphanRecords PROVE IInv'
  <2>1. PICK S \in SUBSET (rec.owners \ dirs) :
          /\ state' = [l \in Lanes |-> IF l \in S THEN "closed" ELSE state[l]]
          /\ worktree' = [l \in Lanes |-> worktree[l] /\ l \notin S]
          /\ rec' = IF S = rec.owners \ dirs
                      THEN [at |-> "ptys", owners |-> {}, todo |-> Closed']
                      ELSE NoRec
    BY <1>23 DEF CloseOrphanRecords
  <2>2. \A l \in S : state[l] \in Provisioned \cup {"closed"}
    BY DEF SnapshotHolds
  <2>3. UNCHANGED <<agents, job, dirs, ptys, lost>>
    BY <1>23 DEF CloseOrphanRecords
  <2>4. rec' = NoRec \/ rec' = [at |-> "ptys", owners |-> {}, todo |-> Closed']
    BY <2>1
  <2>5. TypeOK'
    BY <2>1, <2>3, <2>4 DEF TypeOK, LaneState, NoRec, Closed
  <2>6. RecordInv'
    BY <2>1, <2>2, <2>3
       DEF TypeOK, RecordInv, JobMatchesState, WorktreeRecorded, CleaningHasWorktree, Provisioned
  <2>7. DiskInv'
    BY <2>1, <2>2, <2>3
       DEF TypeOK, DiskInv, WorktreeExists, AbsentDirsAreStale, Provisioned
  <2>8. SnapshotHolds'
    BY <2>4 DEF SnapshotHolds, NoRec, Closed
  <2> QED BY <2>5, <2>6, <2>7, <2>8
<1>24. ASSUME ReconcileEnds PROVE IInv'
  <2> USE <1>24 DEF ReconcileEnds
  <2>1. TypeOK'
    BY DEF TypeOK, LaneState, Jobs, NoRec
  <2>2. RecordInv'
    BY DEF TypeOK, RecordInv, JobMatchesState, WorktreeRecorded, CleaningHasWorktree
  <2>3. DiskInv'
    BY DEF TypeOK, RecordInv, JobMatchesState, WorktreeRecorded, DiskInv, WorktreeExists,
           AbsentDirsAreStale
  <2>4. SnapshotHolds'
    BY DEF TypeOK, SnapshotHolds, NoRec, Provisioned
  <2> QED BY <2>1, <2>2, <2>3, <2>4
<1>25. CASE UNCHANGED vars
  BY <1>25 DEF vars, TypeOK, RecordInv, JobMatchesState, WorktreeRecorded,
       CleaningHasWorktree, DiskInv, WorktreeExists, AbsentDirsAreStale, SnapshotHolds
<1> QED
  BY <1>1, <1>2, <1>3, <1>4, <1>5, <1>6, <1>7, <1>8, <1>9, <1>10, <1>11,
     <1>12, <1>13, <1>14, <1>15, <1>16, <1>17, <1>18, <1>19, <1>20, <1>21,
     <1>22, <1>23, <1>24, <1>25
  DEF LanesNext, Request, Continue, Environment, ReconcileContinues

THEOREM Invariant == Spec => []IInv
<1>1. Init => IInv
  BY InitEstablishes
<1>2. IInv /\ [LanesNext]_vars => IInv'
  BY StepPreserves
<1> QED BY <1>1, <1>2, PTL DEF Spec

(* The lanes' records, jobs, directories and lists are well-formed.         *)
THEOREM Typed == Spec => []TypeOK
<1>1. IInv => TypeOK
  BY DEF IInv
<1> QED BY Invariant, <1>1, PTL

(* No operation leaves a lane it has let go of in an intermediate state.    *)
THEOREM AtRest == Spec => []IdleLanesAtRest
<1>1. IInv => IdleLanesAtRest
  BY DEF IInv, RecordInv, JobMatchesState, IdleLanesAtRest
<1> QED BY Invariant, <1>1, PTL

(* A lane that can run commands has its worktree recorded, a closed one or  *)
(* one still being set up has none.                                         *)
THEOREM Recorded == Spec => []WorktreeRecorded
<1>1. IInv => WorktreeRecorded
  BY DEF IInv, RecordInv
<1> QED BY Invariant, <1>1, PTL

(* A recorded worktree is on the disk unless someone else deleted it: no    *)
(* cleanup and no reconciliation takes the directory of a lane in use.      *)
THEOREM OnDisk == Spec => []WorktreeExists
<1>1. IInv => WorktreeExists
  BY DEF IInv, DiskInv
<1> QED BY Invariant, <1>1, PTL

(* A reconciliation's list of directories to remove names no live lane.     *)
THEOREM LiveLanesSpared == Spec => []ReconcileSparesLiveLanes
<1>1. IInv => ReconcileSparesLiveLanes
  BY DEF IInv, SnapshotHolds, ReconcileSparesLiveLanes, Active
<1> QED BY Invariant, <1>1, PTL

(* Whoever resumes after its awaits finds the transition it is about to make  *)
(* in the table: transition() does not throw in create or provision, which do *)
(* not look at the state again, though reconciliations close lanes without    *)
(* their lock; and a lane that is being cleaned up still has a cleanup under  *)
(* way that will close it. The part of LockReleased and CleanupCloses that    *)
(* does not depend on fairness.                                               *)
Allows(l, event) == \E to \in LaneState : <<state[l], event, to>> \in Table

ResumesAllowed ==
  \A l \in Lanes :
    /\ job[l] = "create.emit" => Allows(l, "create")
    /\ job[l] = "provision.verify" => Allows(l, "provision_complete")
    /\ job[l] \in {"provision.add", "provision.verify", "provision.fail"} =>
         Allows(l, "provision_failed")
    /\ state[l] = "cleaning" =>
         /\ job[l] \in {"cleanup.ptys", "cleanup.worktree", "cleanup.close"}
         /\ Allows(l, "cleanup_complete")

(* No operation that resumes is refused by the transition table, and no lane  *)
(* is left cleaning without a cleanup, whoever interferes.                    *)
THEOREM NoResumeRefused == Spec => []ResumesAllowed
<1>1. IInv => ResumesAllowed
  <2> SUFFICES ASSUME IInv, NEW l \in Lanes
               PROVE  /\ job[l] = "create.emit" => Allows(l, "create")
                      /\ job[l] = "provision.verify" => Allows(l, "provision_complete")
                      /\ job[l] \in {"provision.add", "provision.verify", "provision.fail"} =>
                           Allows(l, "provision_failed")
                      /\ state[l] = "cleaning" =>
                           /\ job[l] \in {"cleanup.ptys", "cleanup.worktree", "cleanup.close"}
                           /\ Allows(l, "cleanup_complete")
    BY DEF ResumesAllowed
  <2>1. job[l] = "create.emit" => Allows(l, "create")
    BY DEF IInv, RecordInv, JobMatchesState, Allows, Table, LaneState
  <2>2. job[l] = "provision.verify" => Allows(l, "provision_complete")
    BY DEF IInv, RecordInv, JobMatchesState, Allows, Table, LaneState
  <2>3. job[l] \in {"provision.add", "provision.verify", "provision.fail"} =>
          Allows(l, "provision_failed")
    BY DEF IInv, RecordInv, JobMatchesState, Allows, Table, LaneState
  <2>4. state[l] = "cleaning" =>
          job[l] \in {"cleanup.ptys", "cleanup.worktree", "cleanup.close"}
    BY DEF IInv, TypeOK, Jobs, RecordInv, JobMatchesState
  <2>5. state[l] = "cleaning" => Allows(l, "cleanup_complete")
    BY DEF Allows, Table, LaneState
  <2> QED
    BY <2>1, <2>2, <2>3, <2>4, <2>5
<1> QED BY Invariant, <1>1, PTL

(* No step terminates a PTY of a lane in use.                               *)
THEOREM PtysKept == Spec => PtysOfLiveLanesKept
<1>1. IInv /\ [LanesNext]_vars =>
        [\A l \in ptys \ ptys' : state[l] \in {"cleaning", "closed"}]_vars
  <2> SUFFICES ASSUME IInv, LanesNext, NEW k \in ptys, k \notin ptys'
               PROVE  state[k] \in {"cleaning", "closed"}
    OBVIOUS
  <2>1. k \in Lanes
    BY DEF IInv, TypeOK
  <2>2. ASSUME NEW l \in Lanes, TerminatePtys(l) PROVE state[k] \in {"cleaning", "closed"}
    BY <2>1, <2>2 DEF TerminatePtys, Goto, IInv, RecordInv, JobMatchesState
  <2>3. ASSUME NEW l \in Lanes, TerminateOrphanPty(l)
        PROVE  state[k] \in {"cleaning", "closed"}
    BY <2>1, <2>3 DEF TerminateOrphanPty, IInv, SnapshotHolds
  <2>4. ASSUME NEW l \in Lanes, Continue(l), ~TerminatePtys(l) PROVE FALSE
    BY <2>4 DEF Continue, CreateContinues, Return, AddWorktree, AddWorktreeFails,
                ProvisionCompletes, ProvisionFails, ExecEnds, RemoveWorktree, CloseLane
  <2>5. ASSUME NEW l \in Lanes, Request(l) PROVE FALSE
    BY <2>5 DEF Request, Create, Provision, Share, Exec, Cleanup, Attach, Detach
  <2>6. ASSUME NEW l \in Lanes, Environment(l) PROVE FALSE
    BY <2>6 DEF Environment, LoseDir, PtyStarts
  <2>7. ASSUME Reconcile \/ CloseOrphanRecords \/ ReconcileEnds PROVE FALSE
    BY <2>7 DEF Reconcile, CloseOrphanRecords, ReconcileEnds
  <2>8. ASSUME NEW l \in Lanes, RemoveOrphanDir(l) PROVE FALSE
    BY <2>8 DEF RemoveOrphanDir
  <2> QED BY <2>2, <2>3, <2>4, <2>5, <2>6, <2>7, <2>8 DEF LanesNext, ReconcileContinues
<1> QED BY <1>1, Invariant, PTL DEF Spec, PtysOfLiveLanesKept

-------------------------------------------------------------------------------
(* Only create makes a lane active, and it makes one active at a time.      *)
LEMMA ActiveGrows ==
  ASSUME IInv, [LanesNext]_vars
  PROVE  \/ Active' \subseteq Active
         \/ \E l \in Lanes : Cardinality(Active) < Capacity /\ Active' = Active \cup {l}
<1> USE DEF IInv, TypeOK, Active
<1>1. ASSUME NEW l \in Lanes, Create(l)
      PROVE  Cardinality(Active) < Capacity /\ Active' = Active \cup {l}
  BY <1>1 DEF Create, MayRegister, MayRegister
<1>2. ASSUME NEW l \in Lanes, NEW event, Transition(l, event) PROVE Active' \subseteq Active
  <2>1. PICK to \in LaneState :
          <<state[l], event, to>> \in Table /\ state' = [state EXCEPT ![l] = to]
    BY <1>2 DEF Transition
  <2>2. state[l] \notin {"absent", "closed"}
    BY <2>1 DEF Table
  <2> QED BY <2>1, <2>2
<1>3. ASSUME NEW l \in Lanes, NEW force \in BOOLEAN, Cleanup(l, force)
      PROVE  Active' \subseteq Active
  <2> DEFINE from  == IF state[l] = "shared" /\ agents[l] # {} THEN "ready" ELSE state[l]
             event == IF state[l] = "cleaning" THEN "cleanup_complete" ELSE "request_cleanup"
  <2>1. PICK to \in LaneState :
          <<from, event, to>> \in Table /\ state' = [state EXCEPT ![l] = to]
    BY <1>3 DEF Cleanup
  <2>2. state[l] \notin {"absent", "closed"}
    BY <2>1, Rows
  <2> QED BY <2>1, <2>2
<1>4. ASSUME UNCHANGED state PROVE Active' \subseteq Active
  BY <1>4
<1>5. ASSUME NEW l \in Lanes, Continue(l) PROVE Active' \subseteq Active
  BY <1>5, <1>2, <1>4
     DEF Continue, CreateContinues, Return, AddWorktree, AddWorktreeFails, ProvisionCompletes,
         ProvisionFails, ExecEnds, TerminatePtys, RemoveWorktree, CloseLane
<1>6. ASSUME NEW l \in Lanes, Request(l), ~Create(l) PROVE Active' \subseteq Active
  BY <1>6, <1>2, <1>3, <1>4 DEF Request, Provision, Share, Exec, Attach, Detach
<1>7. ASSUME CloseOrphanRecords PROVE Active' \subseteq Active
  BY <1>7 DEF CloseOrphanRecords
<1>8. ASSUME NEW l \in Lanes, Environment(l) \/ RemoveOrphanDir(l) \/ TerminateOrphanPty(l)
      PROVE  UNCHANGED state
  BY <1>8 DEF Environment, LoseDir, PtyStarts, RemoveOrphanDir, TerminateOrphanPty
<1>9. ASSUME Reconcile \/ ReconcileEnds \/ UNCHANGED vars PROVE UNCHANGED state
  BY <1>9 DEF Reconcile, ReconcileEnds, vars
<1> HIDE DEF IInv, TypeOK, Active
<1> QED BY <1>1, <1>4, <1>5, <1>6, <1>7, <1>8, <1>9 DEF LanesNext, ReconcileContinues

(* At no time are more lanes active than the capacity allows.               *)
THEOREM Capped == Spec => []WithinCapacity
<1> DEFINE Inv == IInv /\ IsFiniteSet(Active) /\ WithinCapacity
<1>1. Init => Inv
  <2> SUFFICES ASSUME Init PROVE Inv
    OBVIOUS
  <2>1. Active = {}
    BY DEF Init, Active
  <2> QED BY <2>1, InitEstablishes, FS_EmptySet, LanesAssumption DEF WithinCapacity
<1>2. Inv /\ [LanesNext]_vars => Inv'
  <2> SUFFICES ASSUME Inv, [LanesNext]_vars PROVE Inv'
    OBVIOUS
  <2>1. IInv'
    BY StepPreserves
  <2>2. CASE Active' \subseteq Active
    BY <2>1, <2>2, FS_Subset, FS_CardinalityType, LanesAssumption DEF WithinCapacity
  <2>3. ASSUME NEW l \in Lanes, Cardinality(Active) < Capacity, Active' = Active \cup {l}
        PROVE  Inv'
    BY <2>1, <2>3, FS_AddElement, FS_CardinalityType, LanesAssumption DEF WithinCapacity
  <2> QED BY <2>2, <2>3, ActiveGrows
<1> QED BY <1>1, <1>2, PTL DEF Spec

-------------------------------------------------------------------------------
(* The manager implements LaneLifecycle.                                    *)
LEMMA SameTable ==
  /\ Lifecycle!Table = Table
  /\ Lifecycle!LaneState = LaneState
  /\ Lifecycle!LaneEvent = LaneEvent
  /\ Lifecycle!Provisioned = Provisioned
BY DEF Table, LaneState, LaneEvent, Provisioned, Lifecycle!Table, Lifecycle!LaneState,
       Lifecycle!LaneEvent, Lifecycle!Provisioned

LEMMA TransitionFires ==
  ASSUME NEW l \in Lanes, NEW event \in LaneEvent, Transition(l, event)
  PROVE  Lifecycle!Next
BY SameTable DEF Transition, Lifecycle!Next, Lifecycle!Fire

LEMMA StepRefines == IInv /\ [LanesNext]_vars => [Lifecycle!Next]_state
<1> SUFFICES ASSUME IInv, [LanesNext]_vars PROVE Lifecycle!Next \/ UNCHANGED state
  OBVIOUS
<1>1. ASSUME NEW l \in Lanes, Create(l) PROVE Lifecycle!Next
  BY <1>1 DEF Create, MayRegister, Lifecycle!Next, Lifecycle!Register
<1>2. ASSUME NEW l \in Lanes, NEW force \in BOOLEAN, Cleanup(l, force) PROVE Lifecycle!Next
  <2> DEFINE from  == IF state[l] = "shared" /\ agents[l] # {} THEN "ready" ELSE state[l]
             event == IF state[l] = "cleaning" THEN "cleanup_complete" ELSE "request_cleanup"
  <2>1. PICK to \in LaneState :
          <<from, event, to>> \in Table /\ state' = [state EXCEPT ![l] = to]
    BY <1>2 DEF Cleanup
  <2>2. <<state[l], event, to>> \in Table
    BY <2>1, Rows DEF Table
  <2> QED BY <2>1, <2>2, SameTable DEF Lifecycle!Next, Lifecycle!Fire, LaneEvent
<1>3. ASSUME CloseOrphanRecords PROVE Lifecycle!Next
  <2>1. PICK S \in SUBSET (rec.owners \ dirs) :
          state' = [l \in Lanes |-> IF l \in S THEN "closed" ELSE state[l]]
    BY <1>3 DEF CloseOrphanRecords
  <2>2. Lifecycle!CloseOrphans(S)
    BY <2>1, SameTable DEF IInv, SnapshotHolds, Lifecycle!CloseOrphans
  <2>3. S \in SUBSET Lanes
    BY DEF IInv, TypeOK
  <2> QED BY <2>2, <2>3 DEF Lifecycle!Next
<1>4. ASSUME NEW l \in Lanes, Continue(l) PROVE Lifecycle!Next \/ UNCHANGED state
  BY <1>4, TransitionFires
     DEF Continue, CreateContinues, Return, AddWorktree, AddWorktreeFails, ProvisionCompletes,
         ProvisionFails, ExecEnds, TerminatePtys, RemoveWorktree, CloseLane, LaneEvent
<1>5. ASSUME NEW l \in Lanes, Request(l) PROVE Lifecycle!Next \/ UNCHANGED state
  BY <1>5, <1>1, <1>2, TransitionFires
     DEF Request, Provision, Share, Exec, Attach, Detach, LaneEvent
<1>6. ASSUME NEW l \in Lanes, Environment(l) \/ RemoveOrphanDir(l) \/ TerminateOrphanPty(l)
      PROVE  UNCHANGED state
  BY <1>6 DEF Environment, LoseDir, PtyStarts, RemoveOrphanDir, TerminateOrphanPty
<1>7. ASSUME Reconcile \/ ReconcileEnds \/ UNCHANGED vars PROVE UNCHANGED state
  BY <1>7 DEF Reconcile, ReconcileEnds, vars
<1> QED BY <1>3, <1>4, <1>5, <1>6, <1>7 DEF LanesNext, ReconcileContinues

(* Whatever interleaves with its awaits, the manager moves lanes only along *)
(* the transition table and closes only lanes that had a worktree.          *)
THEOREM ImplementsLifecycle == Spec => FollowsLifecycle
<1>1. Init => Lifecycle!Init
  BY DEF Init, Lifecycle!Init
<1>2. IInv /\ [LanesNext]_vars => [Lifecycle!Next]_state
  BY StepRefines
<1> QED BY <1>1, <1>2, Invariant, PTL DEF Spec, FollowsLifecycle, Lifecycle!Spec

(* No operation and no reconciliation brings a closed lane back, although   *)
(* provision, executeInLane and cleanup write states after awaits during    *)
(* which their lane may have been closed.                                   *)
THEOREM ClosedForGood == Spec => Lifecycle!ClosedIsFinal
<1>1. ASSUME [Lifecycle!Next]_state, TypeOK, NEW l \in Lanes, state[l] = "closed"
      PROVE  state'[l] = "closed"
  <2>1. ASSUME NEW k \in Lanes, Lifecycle!Register(k) PROVE state'[l] = "closed"
    BY <2>1, <1>1 DEF Lifecycle!Register, TypeOK
  <2>2. ASSUME NEW k \in Lanes, NEW event, Lifecycle!Fire(k, event) PROVE state'[l] = "closed"
    <3>1. PICK to : /\ <<state[k], event, to>> \in Table
                    /\ state' = [state EXCEPT ![k] = to]
      BY <2>2, SameTable DEF Lifecycle!Fire
    <3>2. state[k] # "closed"
      BY <3>1 DEF Table
    <3> QED BY <3>1, <3>2, <1>1 DEF TypeOK
  <2>3. ASSUME NEW S, Lifecycle!CloseOrphans(S) PROVE state'[l] = "closed"
    BY <2>3, <1>1 DEF Lifecycle!CloseOrphans
  <2>4. CASE UNCHANGED state
    BY <2>4, <1>1
  <2> QED BY <1>1, <2>1, <2>2, <2>3, <2>4 DEF Lifecycle!Next
<1>2. TypeOK /\ [Lifecycle!Next]_state
        => [\A l \in Lanes : state[l] = "closed" => state'[l] = "closed"]_state
  BY <1>1
<1>3. IInv => TypeOK
  BY DEF IInv
<1> QED BY <1>2, <1>3, Invariant, ImplementsLifecycle, PTL
        DEF FollowsLifecycle, Lifecycle!Spec, Lifecycle!ClosedIsFinal
===============================================================================
