--------------------------- MODULE PtyManagerProofs ---------------------------
(***************************************************************************)
(* Proofs about PtyManager, for any numbers of PTYs, of terminations that  *)
(* run at a time and of restarts, and any capacity.                        *)
(*                                                                         *)
(* KilledWithItsRecord needs to know what a call that awaits has already   *)
(* done: the strengthening relates the termination that waits for a kill,  *)
(* and the reconciliation that waits for an orphan, to the process.        *)
(***************************************************************************)
EXTENDS PtyManager, TLAPS

(* A PTY in the registry has been spawned. *)
RegisteredSpawned == \A p \in Registered : process[p] # "none"

(* A termination waits for the kill only of a process it has killed. *)
KillSent ==
  \A c \in Calls : call[c].at = "kill" => process[call[c].pty] \in {"killed", "dead"}

(* The orphan a reconciliation waits for is of no PTY in the registry, and   *)
(* never will be.                                                            *)
OrphanUntracked == rec.at = "grace" => record[rec.pid] = "none" /\ process[rec.pid] # "none"

IInv == TypeOK /\ RegisteredSpawned /\ KillSent /\ OrphanUntracked

-------------------------------------------------------------------------------
LEMMA NoPtyIsOne == NoPty \in Ptys
BY PtyAssumption DEF NoPty

LEMMA InitIInv == Init => IInv
BY NoPtyIsOne, PtyAssumption
   DEF Init, IInv, TypeOK, State, RegisteredSpawned, Registered, KillSent, OrphanUntracked,
       NoCall, NoReconciliation

(* The type invariant is kept by each action. *)
LEMMA TypeKept == TypeOK /\ [Next]_vars => TypeOK'
<1> SUFFICES ASSUME TypeOK, [Next]_vars PROVE TypeOK'
  OBVIOUS
<1> USE NoPtyIsOne DEF TypeOK, State
<1>1. ASSUME NEW p \in Ptys, Spawn(p) PROVE TypeOK'
  BY <1>1 DEF Spawn, Move
<1>2. ASSUME NEW p \in Ptys, WriteInput(p) \/ RecordOutput(p) PROVE TypeOK'
  BY <1>2 DEF WriteInput, RecordOutput, Move
<1>3. CASE CheckIdle
  BY <1>3 DEF CheckIdle, Move
<1>4. ASSUME NEW c \in Calls, NEW p \in Ptys, Terminate(c, p) PROVE TypeOK'
  BY <1>4 DEF Terminate, Asked
<1>5. ASSUME NEW c \in Calls, GraceEnds(c) PROVE TypeOK'
  BY <1>5 DEF GraceEnds, CleansUp, Move, NoCall, Killed, Alive
<1>6. ASSUME NEW c \in Calls, KillEnds(c) PROVE TypeOK'
  BY <1>6 DEF KillEnds, CleansUp, Move, NoCall
<1>7. CASE Reconcile \/ ScanEnds \/ ReconcileEnds
  <2>1. CASE Reconcile
    BY <2>1 DEF Reconcile
  <2>2. CASE ScanEnds
    BY <2>2 DEF ScanEnds
  <2>3. CASE ReconcileEnds
    BY <2>3 DEF ReconcileEnds, NoReconciliation
  <2> QED
    BY <1>7, <2>1, <2>2, <2>3
<1>8. ASSUME NEW p \in Ptys, NextOrphan(p) PROVE TypeOK'
  BY <1>8 DEF NextOrphan, Asked
<1>9. CASE OrphanGraceEnds
  BY <1>9 DEF OrphanGraceEnds, Killed, Alive
<1>10. ASSUME NEW p \in Ptys, Exits(p) \/ Dies(p) PROVE TypeOK'
  BY <1>10 DEF Exits, Dies
<1>11. CASE Restart
  BY <1>11, PtyAssumption DEF Restart, Move, NoCall, NoReconciliation
<1>12. CASE UNCHANGED vars
  BY <1>12 DEF vars
<1> HIDE DEF TypeOK, State
<1> QED
  BY <1>1, <1>2, <1>3, <1>4, <1>5, <1>6, <1>7, <1>8, <1>9, <1>10, <1>11, <1>12
     DEF Next, Reconciling

(* So is what the three parts of the strengthening say. *)
LEMMA StepIInv == IInv /\ [Next]_vars => IInv'
<1> SUFFICES ASSUME IInv, [Next]_vars PROVE IInv'
  OBVIOUS
<1>t. TypeOK'
  BY TypeKept DEF IInv
<1> DEFINE Parts == RegisteredSpawned /\ KillSent /\ OrphanUntracked
<1> SUFFICES Parts'
  BY <1>t DEF IInv
<1> USE NoPtyIsOne DEF IInv, TypeOK, State, RegisteredSpawned, Registered, KillSent, OrphanUntracked
<1>1. ASSUME NEW p \in Ptys, Spawn(p) PROVE Parts'
  BY <1>1 DEF Spawn, Move
<1>2. ASSUME NEW p \in Ptys, WriteInput(p) \/ RecordOutput(p) PROVE Parts'
  BY <1>2 DEF WriteInput, RecordOutput, Move
<1>3. CASE CheckIdle
  BY <1>3 DEF CheckIdle, Move
<1>4. ASSUME NEW c \in Calls, NEW p \in Ptys, Terminate(c, p) PROVE Parts'
  BY <1>4 DEF Terminate, Asked
<1>5. ASSUME NEW c \in Calls, GraceEnds(c) PROVE Parts'
  BY <1>5 DEF GraceEnds, CleansUp, Move, NoCall, Killed, Alive
<1>6. ASSUME NEW c \in Calls, KillEnds(c) PROVE Parts'
  BY <1>6 DEF KillEnds, CleansUp, Move, NoCall
<1>7. CASE Reconcile \/ ScanEnds \/ ReconcileEnds
  <2>1. CASE Reconcile
    BY <2>1 DEF Reconcile
  <2>2. CASE ScanEnds
    BY <2>2 DEF ScanEnds
  <2>3. CASE ReconcileEnds
    BY <2>3 DEF ReconcileEnds, NoReconciliation
  <2> QED
    BY <1>7, <2>1, <2>2, <2>3
<1>8. ASSUME NEW p \in Ptys, NextOrphan(p) PROVE Parts'
  BY <1>8 DEF NextOrphan, Asked, Tracked, Alive
<1>9. CASE OrphanGraceEnds
  BY <1>9 DEF OrphanGraceEnds, Killed, Alive
<1>10. ASSUME NEW p \in Ptys, Exits(p) \/ Dies(p) PROVE Parts'
  BY <1>10 DEF Exits, Dies
<1>11. CASE Restart
  BY <1>11 DEF Restart, Move, NoCall, NoReconciliation
<1>12. CASE UNCHANGED vars
  BY <1>12 DEF vars
<1> HIDE DEF IInv, TypeOK, State, RegisteredSpawned, Registered, KillSent, OrphanUntracked, Parts
<1> QED
  BY <1>1, <1>2, <1>3, <1>4, <1>5, <1>6, <1>7, <1>8, <1>9, <1>10, <1>11, <1>12
     DEF Next, Reconciling

(* IInv holds throughout. *)
LEMMA Invariant == Spec => []IInv
BY InitIInv, StepIInv, PTL DEF Spec

(* The registry, the lifecycles and the calls always have the types TypeOK   *)
(* says, and the state machine of a PTY is in the state of its record.       *)
THEOREM Typed == Spec => []TypeOK
<1>1. IInv => TypeOK
  BY DEF IInv
<1> QED
  BY Invariant, <1>1, PTL

-------------------------------------------------------------------------------
(* What KilledWithItsRecord says of a step. *)
KillsWithRecord ==
  \A p \in Registered :
    epoch' = epoch =>
      /\ record'[p] = "none" => process'[p] \in {"killed", "dead"}
      /\ process'[p] # process[p] /\ process'[p] \in {"asked", "killed"} => Terminating(p)'

LEMMA StepKills == IInv /\ [Next]_vars => KillsWithRecord
<1> SUFFICES ASSUME IInv, [Next]_vars PROVE KillsWithRecord
  OBVIOUS
<1> USE DEF IInv, TypeOK, State, KillsWithRecord, Registered
<1>1. ASSUME NEW p \in Ptys, Spawn(p) PROVE KillsWithRecord
  BY <1>1 DEF Spawn, Move
<1>2. ASSUME NEW p \in Ptys, WriteInput(p) \/ RecordOutput(p) PROVE KillsWithRecord
  BY <1>2 DEF WriteInput, RecordOutput, Move
<1>3. CASE CheckIdle
  BY <1>3 DEF CheckIdle, Move
<1>4. ASSUME NEW c \in Calls, NEW p \in Ptys, Terminate(c, p) PROVE KillsWithRecord
  BY <1>4 DEF Terminate, Asked, Terminating
<1>5. ASSUME NEW c \in Calls, GraceEnds(c) PROVE KillsWithRecord
  BY <1>5 DEF GraceEnds, CleansUp, Move, Killed, Alive, Terminating, RegisteredSpawned
<1>6. ASSUME NEW c \in Calls, KillEnds(c) PROVE KillsWithRecord
  BY <1>6 DEF KillEnds, CleansUp, Move, KillSent
<1>7. CASE Reconcile \/ ScanEnds \/ ReconcileEnds
  BY <1>7 DEF Reconcile, ScanEnds, ReconcileEnds
<1>8. ASSUME NEW p \in Ptys, NextOrphan(p) PROVE KillsWithRecord
  BY <1>8 DEF NextOrphan, Asked, Tracked
<1>9. CASE OrphanGraceEnds
  BY <1>9 DEF OrphanGraceEnds, Killed, OrphanUntracked
<1>10. ASSUME NEW p \in Ptys, Exits(p) \/ Dies(p) PROVE KillsWithRecord
  BY <1>10 DEF Exits, Dies
<1>11. CASE Restart
  BY <1>11 DEF Restart
<1>12. CASE UNCHANGED vars
  BY <1>12 DEF vars
<1> QED
  BY <1>1, <1>2, <1>3, <1>4, <1>5, <1>6, <1>7, <1>8, <1>9, <1>10, <1>11, <1>12
     DEF Next, Reconciling

(* Unless the runtime crashes, a PTY leaves the registry only when its shell *)
(* has exited or been killed, and until then only its terminations signal it.*)
THEOREM KillsOnlyWithRecord == Spec => KilledWithItsRecord
<1>1. IInv /\ [Next]_vars => [KillsWithRecord]_vars
  BY StepKills
<1>2. [KillsWithRecord]_vars =>
        [\A p \in Registered :
           epoch' = epoch =>
             /\ record'[p] = "none" => process'[p] \in {"killed", "dead"}
             /\ process'[p] # process[p] /\ process'[p] \in {"asked", "killed"}
                  => Terminating(p)']_vars
  BY DEF KillsWithRecord
<1> QED
  BY Invariant, <1>1, <1>2, PTL DEF Spec, KilledWithItsRecord
===============================================================================
