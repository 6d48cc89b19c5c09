---------------------------- MODULE ParTasksProofs ----------------------------
(***************************************************************************)
(* Proofs about ParTasks for any number of lanes, processes and            *)
(* overlapping calls: the records agree for every client, and no process   *)
(* of a lane that is bound at most once is left untracked.                 *)
(***************************************************************************)
EXTENDS ParTasks, TLAPS

(* A binding is that of a process spawned for its lane.                     *)
BornAtHome ==
  /\ \A p \in Procs : status[p] = "unborn" => home[p] = None /\ p \notin alive
  /\ \A l \in Lanes : bindings[l] # None =>
       home[bindings[l]] = l /\ status[bindings[l]] # "unborn"
  /\ \A p \in Procs : p \in watched => home[p] \in Lanes /\ status[p] # "unborn"

(* What a terminateParTask call took along across its awaits.               *)
CallHolds ==
  \A t \in Calls :
    /\ call[t].at # "idle" => call[t].lane \in Lanes
    /\ call[t].at \in {"wait", "tail"} =>
         /\ call[t].binding \in Procs
         /\ call[t].proc = call[t].binding
         /\ home[call[t].binding] = call[t].lane
         /\ status[call[t].binding] # "unborn"
    /\ call[t].at = "tail" => call[t].proc \notin alive \/ call[t].proc \in killed

(* For a lane that is bound once: its one process, unless it was killed, is *)
(* the lane's binding as long as it runs, and only terminated after that.   *)
BoundOnce ==
  \A p \in Procs : home[p] \in BindsOnce =>
    /\ \A q \in Procs : home[q] = home[p] => q = p
    /\ p \in alive \ killed =>
         bindings[home[p]] = p /\ handle[home[p]] = p /\ status[p] # "terminated"

IInv == TypeOK /\ RecordsAgree /\ BornAtHome /\ CallHolds /\ BoundOnce

LEMMA InitEstablishes == Init => IInv
BY ParAssumption
   DEF Init, IInv, TypeOK, MaybeProc, NoCall, CallState, RecordsAgree, BornAtHome, CallHolds,
       BoundOnce

(* One step per action; under it one per conjunct of the invariant.         *)
LEMMA StepPreserves == IInv /\ [Next]_vars => IInv'
<1> SUFFICES ASSUME IInv, [Next]_vars PROVE IInv'
  OBVIOUS
<1> USE ParAssumption DEF IInv, MaybeProc
<1>1. ASSUME NEW l \in Lanes, NEW p \in Procs, Bind(l, p) PROVE IInv'
  <2> USE <1>1 DEF Bind, MayBind
  <2>1. TypeOK'
    BY DEF TypeOK
  <2>2. RecordsAgree'
    BY DEF TypeOK, RecordsAgree, BornAtHome
  <2>3. BornAtHome'
    BY DEF TypeOK, BornAtHome
  <2>4. CallHolds'
    BY DEF TypeOK, CallHolds, CallState, NoCall, RecordsAgree, BornAtHome
  <2>5. BoundOnce'
    BY DEF TypeOK, BoundOnce, BornAtHome, RecordsAgree
  <2> QED BY <2>1, <2>2, <2>3, <2>4, <2>5
<1>2. ASSUME NEW p \in Procs, Exits(p) PROVE IInv'
  <2> USE <1>2 DEF Exits
  <2>1. TypeOK'
    BY DEF TypeOK
  <2>2. RecordsAgree'
    BY DEF TypeOK, RecordsAgree, BornAtHome
  <2>3. BornAtHome'
    BY DEF TypeOK, BornAtHome
  <2>4. CallHolds'
    BY DEF TypeOK, CallHolds, CallState, NoCall, RecordsAgree, BornAtHome
  <2>5. BoundOnce'
    BY DEF TypeOK, BoundOnce, BornAtHome, RecordsAgree
  <2> QED BY <2>1, <2>2, <2>3, <2>4, <2>5
<1>3. ASSUME NEW p \in Procs, ExitObserved(p) PROVE IInv'
  <2> USE <1>3 DEF ExitObserved
  <2>1. TypeOK'
    BY DEF TypeOK
  <2>2. RecordsAgree'
    BY DEF TypeOK, RecordsAgree, BornAtHome
  <2>3. BornAtHome'
    BY DEF TypeOK, BornAtHome
  <2>4. CallHolds'
    BY DEF TypeOK, CallHolds, CallState, NoCall, RecordsAgree, BornAtHome
  <2>5. BoundOnce'
    BY DEF TypeOK, BoundOnce, BornAtHome, RecordsAgree
  <2> QED BY <2>1, <2>2, <2>3, <2>4, <2>5
<1>4. ASSUME NEW t \in Calls, NEW l \in Lanes, Terminates(t, l) PROVE IInv'
  <2> USE <1>4 DEF Terminates, Unbind
  <2>1. TypeOK'
    BY DEF TypeOK, CallState, NoCall, CallHolds
  <2>2. RecordsAgree'
    BY DEF TypeOK, RecordsAgree, BornAtHome
  <2>3. BornAtHome'
    BY DEF TypeOK, BornAtHome
  <2>4. CallHolds'
    BY DEF TypeOK, CallHolds, CallState, NoCall, RecordsAgree, BornAtHome
  <2>5. BoundOnce'
    BY DEF TypeOK, BoundOnce, BornAtHome, RecordsAgree
  <2> QED BY <2>1, <2>2, <2>3, <2>4, <2>5
<1>5. ASSUME NEW t \in Calls, WaitEnds(t) PROVE IInv'
  <2> USE <1>5 DEF WaitEnds
  <2>1. TypeOK'
    BY DEF TypeOK, CallState, NoCall, CallHolds
  <2>2. RecordsAgree'
    BY DEF TypeOK, RecordsAgree, BornAtHome
  <2>3. BornAtHome'
    BY DEF TypeOK, BornAtHome
  <2>4. CallHolds'
    BY DEF TypeOK, CallHolds, CallState, NoCall
  <2>5. BoundOnce'
    BY DEF TypeOK, BoundOnce, BornAtHome, RecordsAgree
  <2> QED BY <2>1, <2>2, <2>3, <2>4, <2>5
<1>6. ASSUME NEW t \in Calls, WaitTimesOut(t) PROVE IInv'
  <2> USE <1>6 DEF WaitTimesOut
  <2>1. TypeOK'
    BY DEF TypeOK, CallState, NoCall, CallHolds
  <2>2. RecordsAgree'
    BY DEF TypeOK, RecordsAgree, BornAtHome
  <2>3. BornAtHome'
    BY DEF TypeOK, BornAtHome
  <2>4. CallHolds'
    BY DEF TypeOK, CallHolds, CallState, NoCall
  <2>5. BoundOnce'
    BY DEF TypeOK, BoundOnce, BornAtHome, RecordsAgree
  <2> QED BY <2>1, <2>2, <2>3, <2>4, <2>5
<1>7. ASSUME NEW t \in Calls, TerminateEnds(t) PROVE IInv'
  <2> USE <1>7 DEF TerminateEnds, Unbind
  <2>1. TypeOK'
    BY DEF TypeOK, CallState, NoCall, CallHolds
  <2>2. RecordsAgree'
    BY DEF TypeOK, RecordsAgree, BornAtHome, CallHolds, CallState
  <2>3. BornAtHome'
    BY DEF TypeOK, BornAtHome, CallHolds
  <2>4. CallHolds'
    BY DEF TypeOK, CallHolds, CallState, NoCall, RecordsAgree, BornAtHome
  <2>5. BoundOnce'
    BY DEF TypeOK, BoundOnce, BornAtHome, RecordsAgree, CallHolds, CallState
  <2> QED BY <2>1, <2>2, <2>3, <2>4, <2>5
<1>8. ASSUME NEW t \in Calls, NEW l \in Lanes, HealthFindsStale(t, l) PROVE IInv'
  <2> USE <1>8 DEF HealthFindsStale
  <2>1. TypeOK'
    BY DEF TypeOK, CallState, NoCall, CallHolds
  <2>2. RecordsAgree'
    BY DEF TypeOK, RecordsAgree, BornAtHome
  <2>3. BornAtHome'
    BY DEF TypeOK, BornAtHome
  <2>4. CallHolds'
    BY DEF TypeOK, CallHolds, CallState, NoCall, RecordsAgree, BornAtHome
  <2>5. BoundOnce'
    BY DEF TypeOK, BoundOnce, BornAtHome, RecordsAgree
  <2> QED BY <2>1, <2>2, <2>3, <2>4, <2>5
<1>9. ASSUME NEW l \in Lanes, HealthFindsDead(l) PROVE IInv'
  <2> USE <1>9 DEF HealthFindsDead, Unbind
  <2>1. TypeOK'
    BY DEF TypeOK
  <2>2. RecordsAgree'
    BY DEF TypeOK, RecordsAgree, BornAtHome
  <2>3. BornAtHome'
    BY DEF TypeOK, BornAtHome
  <2>4. CallHolds'
    BY DEF TypeOK, CallHolds, CallState, NoCall, RecordsAgree, BornAtHome
  <2>5. BoundOnce'
    BY DEF TypeOK, BoundOnce, BornAtHome, RecordsAgree
  <2> QED BY <2>1, <2>2, <2>3, <2>4, <2>5
<1>10. ASSUME NEW l \in Lanes, ReconcilePid(l) PROVE IInv'
  <2> USE <1>10 DEF ReconcilePid
  <2>1. TypeOK'
    BY DEF TypeOK
  <2>2. RecordsAgree'
    BY DEF TypeOK, RecordsAgree, BornAtHome
  <2>3. BornAtHome'
    BY DEF TypeOK, BornAtHome
  <2>4. CallHolds'
    BY DEF TypeOK, CallHolds, CallState, NoCall, RecordsAgree, BornAtHome
  <2>5. BoundOnce'
    BY DEF TypeOK, BoundOnce, BornAtHome, RecordsAgree
  <2> QED BY <2>1, <2>2, <2>3, <2>4, <2>5
<1>11. CASE UNCHANGED vars
  BY <1>11 DEF vars, TypeOK, CallState, RecordsAgree, BornAtHome, CallHolds, BoundOnce
<1>12. ASSUME NEW t \in Calls, StaleTerminates(t) PROVE IInv'
  BY <1>12, <1>4 DEF StaleTerminates, CallHolds
<1> QED
  BY <1>1, <1>2, <1>3, <1>4, <1>5, <1>6, <1>7, <1>8, <1>9, <1>10, <1>11, <1>12
  DEF Next, CallContinues, Terminate

THEOREM Invariant == Spec => []IInv
<1>1. Init => IInv
  BY InitEstablishes
<1>2. IInv /\ [Next]_vars => IInv'
  BY StepPreserves
<1> QED BY <1>1, <1>2, PTL DEF Spec

(* Bindings, handles, pids, processes and calls are well-formed.            *)
THEOREM Typed == Spec => []TypeOK
<1>1. IInv => TypeOK
  BY DEF IInv
<1> QED BY <1>1, Invariant, PTL

(* Handle, recorded pid and binding agree, whatever the clients do.         *)
THEOREM RecordsAlwaysAgree == Spec => []RecordsAgree
<1>1. IInv => RecordsAgree
  BY DEF IInv
<1> QED BY <1>1, Invariant, PTL

(* A process of a lane that is bound at most once never runs untracked.     *)
THEOREM NoTaskLost == Spec => []LiveTasksTracked
<1>1. IInv => LiveTasksTracked
  BY DEF IInv, TypeOK, BoundOnce, LiveTasksTracked, Tracked
<1> QED BY <1>1, Invariant, PTL
===============================================================================
