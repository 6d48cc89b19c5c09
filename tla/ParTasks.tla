------------------------------- MODULE ParTasks -------------------------------
(***************************************************************************)
(* ParManager (lanes/par.ts): which par process is bound to which lane,    *)
(* and how bindings end - by terminateParTask, by the health check, or by  *)
(* the callback on the process's exit. executeInLane is an operation of    *)
(* Lanes; of this state it only reads that a binding is active.            *)
(*                                                                         *)
(* A binding, its process and its pid are created together and are one     *)
(* element of Procs. bindings and processHandles are keyed by lane, so     *)
(* code that resumes after an await finds there whatever is current then.  *)
(* A heartbeat only decides whether the health check finds a live process  *)
(* stale, which here it may at any time.                                    *)
(***************************************************************************)
EXTENDS Naturals

CONSTANTS Lanes,
          Procs,             (* par processes that can be spawned           *)
          Calls,             (* terminateParTask calls that may overlap     *)
          None,
          BindsOnce,         (* lanes whose client binds them at most once  *)
          BindsWhenUnbound   (* lanes whose client asks getBinding first    *)

ASSUME ParAssumption ==
  /\ None \notin Procs \cup Lanes
  /\ BindsOnce \subseteq Lanes
  /\ BindsWhenUnbound \subseteq Lanes

VARIABLES bindings,   (* lane -> its binding                                *)
          handle,     (* processHandles                                     *)
          parPid,     (* lane -> the lane record's parTaskPid               *)
          status,     (* binding -> active, stale, terminated               *)
          home,       (* process -> the lane it was spawned for             *)
          alive,      (* processes that run                                 *)
          killed,     (* processes that were sent SIGKILL                   *)
          watched,    (* processes whose exit callback has not run          *)
          call        (* terminateParTask calls: where each one stands      *)

vars == <<bindings, handle, parPid, status, home, alive, killed, watched, call>>

MaybeProc == Procs \cup {None}

CallState == [at : {"idle", "stale", "wait", "tail"}, lane : Lanes \cup {None},
              binding : MaybeProc, proc : MaybeProc]

NoCall == [at |-> "idle", lane |-> None, binding |-> None, proc |-> None]

TypeOK ==
  /\ bindings \in [Lanes -> MaybeProc]
  /\ handle \in [Lanes -> MaybeProc]
  /\ parPid \in [Lanes -> MaybeProc]
  /\ status \in [Procs -> {"unborn", "active", "stale", "terminated"}]
  /\ home \in [Procs -> Lanes \cup {None}]
  /\ alive \subseteq Procs
  /\ killed \subseteq Procs
  /\ watched \subseteq Procs
  /\ call \in [Calls -> CallState]

Init ==
  /\ bindings = [l \in Lanes |-> None]
  /\ handle = [l \in Lanes |-> None]
  /\ parPid = [l \in Lanes |-> None]
  /\ status = [p \in Procs |-> "unborn"]
  /\ home = [p \in Procs |-> None]
  /\ alive = {}
  /\ killed = {}
  /\ watched = {}
  /\ call = [t \in Calls |-> NoCall]

-------------------------------------------------------------------------------
(* Fault: the pid stays in the lane's record. *)
UnbindKeepingPid(l) ==
  /\ bindings' = [bindings EXCEPT ![l] = None]
  /\ handle' = [handle EXCEPT ![l] = None]
  /\ UNCHANGED parPid

(* Fault: the pid is zeroed instead of cleared. *)
UnbindZeroingPid(l) ==
  /\ bindings' = [bindings EXCEPT ![l] = None]
  /\ handle' = [handle EXCEPT ![l] = None]
  /\ parPid' = [parPid EXCEPT ![l] = 0]

(* bindings.delete, processHandles.delete, registry.update({parTaskPid: null}) *)
Unbind(l) ==
  /\ bindings' = [bindings EXCEPT ![l] = None]
  /\ handle' = [handle EXCEPT ![l] = None]
  /\ parPid' = [parPid EXCEPT ![l] = None]

(* The code binds whenever it is asked; these are its clients' rules. *)
MayBind(l) ==
  /\ l \in BindsOnce => \A p \in Procs : home[p] # l
  /\ l \in BindsWhenUnbound => bindings[l] = None

(* bindParTask. It does not look at an existing binding. *)
Bind(l, p) ==
  /\ status[p] = "unborn"
  /\ MayBind(l)
  /\ bindings' = [bindings EXCEPT ![l] = p]
  /\ handle' = [handle EXCEPT ![l] = p]
  /\ parPid' = [parPid EXCEPT ![l] = p]
  /\ status' = [status EXCEPT ![p] = "active"]
  /\ home' = [home EXCEPT ![p] = l]
  /\ alive' = alive \cup {p}
  /\ watched' = watched \cup {p}
  /\ UNCHANGED <<killed, call>>

(* A process ends: by itself, on SIGTERM, or on SIGKILL. *)
Exits(p) ==
  /\ p \in alive
  /\ alive' = alive \ {p}
  /\ UNCHANGED <<bindings, handle, parPid, status, home, killed, watched, call>>

(* proc.exited's callback. It ends the binding its lane has by now. *)
ExitObserved(p) ==
  LET l == home[p]
      current == bindings[l]
  IN /\ p \in watched \ alive
     /\ watched' = watched \ {p}
     /\ IF current # None /\ status[current] = "active"
          THEN /\ status' = [status EXCEPT ![current] = "terminated"]
               /\ handle' = [handle EXCEPT ![l] = None]
               /\ parPid' = [parPid EXCEPT ![l] = None]
          ELSE UNCHANGED <<status, handle, parPid>>
     /\ UNCHANGED <<bindings, home, alive, killed, call>>

-------------------------------------------------------------------------------
(* terminateParTask *)

(* Fault: any binding found is only dropped, as if it had terminated. *)
DropsBinding(t, l) ==
  /\ bindings[l] # None
  /\ Unbind(l)
  /\ call' = [call EXCEPT ![t] = NoCall]
  /\ UNCHANGED <<status, home, alive, killed, watched>>

(* Up to the first await: SIGTERM is sent to the process found. *)
Terminates(t, l) ==
  LET b == bindings[l] IN
  \/ /\ b = None
     /\ call[t] # NoCall
     /\ call' = [call EXCEPT ![t] = NoCall]
     /\ UNCHANGED <<bindings, handle, parPid, status, home, alive, killed, watched>>
  \/ /\ b # None /\ status[b] = "terminated"
     /\ Unbind(l)
     /\ call' = [call EXCEPT ![t] = NoCall]
     /\ UNCHANGED <<status, home, alive, killed, watched>>
  \/ /\ b # None /\ status[b] # "terminated"
     /\ call' = [call EXCEPT ![t] =
                   [at |-> IF handle[l] = None THEN "tail" ELSE "wait",
                    lane |-> l, binding |-> b, proc |-> handle[l]]]
     /\ UNCHANGED <<bindings, handle, parPid, status, home, alive, killed, watched>>

Terminate(t, l) == call[t] = NoCall /\ Terminates(t, l)

(* The process is gone in time. *)
WaitEnds(t) ==
  /\ call[t].at = "wait"
  /\ call[t].proc \notin alive
  /\ call' = [call EXCEPT ![t].at = "tail"]
  /\ UNCHANGED <<bindings, handle, parPid, status, home, alive, killed, watched>>

(* Fault: the timeout only ends the wait. *)
WaitTimesOutQuietly(t) ==
  /\ call[t].at = "wait"
  /\ call' = [call EXCEPT ![t].at = "tail"]
  /\ UNCHANGED <<bindings, handle, parPid, status, home, alive, killed, watched>>

(* forceKillTimeoutMs is over: SIGKILL, and an event is awaited. *)
WaitTimesOut(t) ==
  /\ call[t].at = "wait"
  /\ killed' = killed \cup {call[t].proc}
  /\ call' = [call EXCEPT ![t].at = "tail"]
  /\ UNCHANGED <<bindings, handle, parPid, status, home, alive, watched>>

(* The tail unbinds the lane it was called for, whatever is bound there. *)
TerminateEnds(t) ==
  /\ call[t].at = "tail"
  /\ status' = [status EXCEPT ![call[t].binding] = "terminated"]
  /\ Unbind(call[t].lane)
  /\ call' = [call EXCEPT ![t] = NoCall]
  /\ UNCHANGED <<home, alive, killed, watched>>

-------------------------------------------------------------------------------
(* runHealthCheck, one lane at a time; rounds may overlap. *)

HealthFindsDead(l) ==
  LET b == bindings[l] IN
  /\ b # None /\ status[b] = "active" /\ b \notin alive
  /\ status' = [status EXCEPT ![b] = "terminated"]
  /\ Unbind(l)
  /\ UNCHANGED <<home, alive, killed, watched, call>>

(* No heartbeat for staleTimeoutMs; an event is awaited before terminating. *)
HealthFindsStale(t, l) ==
  LET b == bindings[l] IN
  /\ call[t] = NoCall
  /\ b # None /\ status[b] = "active" /\ b \in alive
  /\ status' = [status EXCEPT ![b] = "stale"]
  /\ call' = [call EXCEPT ![t] = [NoCall EXCEPT !.at = "stale", !.lane = l]]
  /\ UNCHANGED <<bindings, handle, parPid, home, alive, killed, watched>>

StaleTerminates(t) == call[t].at = "stale" /\ Terminates(t, call[t].lane)

(* Phase 2 of LaneManager.reconcileOrphans. *)
ReconcilePid(l) ==
  /\ parPid[l] # None
  /\ parPid[l] \notin alive
  /\ parPid' = [parPid EXCEPT ![l] = None]
  /\ UNCHANGED <<bindings, handle, status, home, alive, killed, watched, call>>

-------------------------------------------------------------------------------
CallContinues(t) == StaleTerminates(t) \/ WaitEnds(t) \/ WaitTimesOut(t) \/ TerminateEnds(t)

Next ==
  \/ \E l \in Lanes, p \in Procs : Bind(l, p)
  \/ \E p \in Procs : Exits(p) \/ ExitObserved(p)
  \/ \E t \in Calls, l \in Lanes : Terminate(t, l) \/ HealthFindsStale(t, l)
  \/ \E t \in Calls : CallContinues(t)
  \/ \E l \in Lanes : HealthFindsDead(l) \/ ReconcilePid(l)

Spec == Init /\ [][Next]_vars

(* Timers fire, events are delivered, and SIGKILL ends a process. *)
Fairness ==
  /\ \A t \in Calls : WF_vars(CallContinues(t))
  /\ \A p \in Procs : WF_vars(p \in killed /\ Exits(p))

FairSpec == Spec /\ Fairness

-------------------------------------------------------------------------------
(* The three places that name a lane's process agree, whatever callback or  *)
(* call touched which of them last: a handle or a recorded pid is always    *)
(* that of the lane's binding, and a binding that is not terminated still   *)
(* has its handle, so that terminateParTask can end its process.            *)
RecordsAgree ==
  \A l \in Lanes :
    /\ handle[l] \in {None, bindings[l]}
    /\ parPid[l] \in {None, bindings[l]}
    /\ bindings[l] # None /\ status[bindings[l]] # "terminated" => handle[l] = bindings[l]

(* Someone still holds what it takes to end the process: its lane's binding *)
(* is its own and not terminated, or a terminateParTask call has it in hand.*)
Tracked(p) ==
  \/ p \in killed
  \/ bindings[home[p]] = p /\ handle[home[p]] = p
  \/ \E t \in Calls : call[t].at = "wait" /\ call[t].proc = p

(* No par process is left running untracked, neither by the exit callback   *)
(* nor by the health check nor by calls of terminateParTask that overlap,   *)
(* if its lane is bound at most once.                                       *)
LiveTasksTracked == \A p \in alive : home[p] \in BindsOnce => Tracked(p)

(* The same for every lane: "Track live process handles for termination"    *)
(* (par.ts:54). It fails for clients that bind a lane again, even for those *)
(* that first check that the lane has no binding.                           *)
EveryLiveTaskTracked == \A p \in alive : Tracked(p)

(* A process that terminateParTask sent SIGTERM ends, cooperating or not,   *)
(* whatever happened to its binding meanwhile.                              *)
TerminationKills ==
  \A t \in Calls, p \in Procs :
    call[t].at = "wait" /\ call[t].proc = p ~> p \notin alive
===============================================================================
