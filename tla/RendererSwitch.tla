---------------------------- MODULE RendererSwitch ----------------------------
(***************************************************************************)
(* switchRenderer (renderer/switch.ts) over the two adapters and the       *)
(* registry, with the crashes of their processes and the fallback that a   *)
(* crash of rio starts by itself (renderer/rio/backend.ts).                *)
(*                                                                         *)
(* A call has two threads: "inner" replaces the old renderer by the new    *)
(* one under a timeout, "back" undoes it. A timeout does not end inner: it *)
(* goes on while back works on the same adapters. A thread's value is the  *)
(* await it stands at. Callers name the active renderer as the old one.    *)
(*                                                                         *)
(* The streams a caller passes are one value: none, free, or locked - a    *)
(* stream that ever had a reader stays locked, since unbindStream cancels  *)
(* the reader and does not release it.                                     *)
(***************************************************************************)
EXTENDS Renderers

CONSTANT Calls         (* switchRenderer calls that may be alive together *)

VARIABLES machine,     (* RendererStateMachine's state                    *)
          active,      (* the registry's active id                        *)
          call,
          timedOut     (* some switch timed out                           *)

vars == <<machine, adapters, active, call, falling, late, crashes, timedOut>>

Streams == {"none", "free", "locked"}

Awaits == {"none", "stop", "init", "start"}

CallState == [at : {"idle", "switch", "rollback"}, inner : Awaits, back : Awaits,
              from : Renderers, to : Renderers, streams : Streams]

NoCall == [at |-> "idle", inner |-> "none", back |-> "none",
           from |-> Ghostty, to |-> Rio, streams |-> "none"]

TypeOK ==
  /\ machine \in {"running", "switching", "errored"}
  /\ adapters \in [Renderers -> Adapter]
  /\ active \in Renderers
  /\ call \in [Calls -> CallState]
  /\ falling \in BOOLEAN
  /\ late \in BOOLEAN
  /\ crashes \in 0..MaxCrashes
  /\ timedOut \in BOOLEAN

Init ==
  /\ machine = "running"
  /\ active \in Renderers
  /\ \E b \in BOOLEAN :
       adapters = [r \in Renderers |-> IF r = active THEN Shown(b) ELSE Fresh(r)]
  /\ call = [c \in Calls |-> NoCall]
  /\ falling = FALSE
  /\ late = FALSE
  /\ crashes = 0
  /\ timedOut = FALSE

-------------------------------------------------------------------------------
(* Fault: a switch may be asked for while one is under way. *)
TransitionsReentrant ==
  [running |-> [switch_request |-> "switching"],
   switching |-> [switch_request |-> "switching", switch_success |-> "running",
                  switch_rollback |-> "running", switch_failure |-> "errored"],
   errored |-> [recovery_attempt |-> "initializing", give_up |-> "stopped"]]

(* Fault: a switch that cannot be undone stops the renderer for good. *)
TransitionsStopping ==
  [running |-> [switch_request |-> "switching"],
   switching |-> [switch_success |-> "running", switch_rollback |-> "running",
                  switch_failure |-> "stopped"],
   errored |-> [recovery_attempt |-> "initializing", give_up |-> "stopped"]]

(* TRANSITIONS, in the states switchRenderer's events lead to and from. *)
Transitions ==
  [running |-> [switch_request |-> "switching"],
   switching |-> [switch_success |-> "running", switch_rollback |-> "running",
                  switch_failure |-> "errored"],
   errored |-> [recovery_attempt |-> "initializing", give_up |-> "stopped"]]

Waiting(run) == IF run.at \in Awaits THEN run.at ELSE "none"

(* Fault: the new renderer is not marked active. *)
RebindOnly(run, r) ==
  LET a == run.adapters[r]
  IN IF run.streams = "none" \/ (Binds(r, a) /\ run.streams = "free")
       THEN [At(run, r, [a EXCEPT !.bound = @ \/ run.streams = "free"], "done")
              EXCEPT !.streams = IF @ = "free" THEN "locked" ELSE @]
       ELSE At(run, r, [a EXCEPT !.bound = @ /\ ~(r = Ghostty /\ Binds(r, a))], "failed")

(* rebindStreams and setActive. Ghostty drops what it had before it throws. *)
Rebind(run, r) ==
  LET a == run.adapters[r]
  IN IF run.streams = "none" \/ (Binds(r, a) /\ run.streams = "free")
       THEN [At(run, r, [a EXCEPT !.bound = @ \/ run.streams = "free"], "done")
              EXCEPT !.active = r,
                     !.streams = IF @ = "free" THEN "locked" ELSE @]
       ELSE At(run, r, [a EXCEPT !.bound = @ /\ ~(r = Ghostty /\ Binds(r, a))], "failed")

AfterStart(run, new) == IF run.at = "started" THEN Rebind(run, new) ELSE run

AfterInit(run, new, spawns) ==
  IF run.at = "inited" THEN AfterStart(Start(run, new, spawns), new) ELSE run

AfterStop(run, new, spawns) ==
  IF run.at = "stopped" THEN AfterInit(InitRenderer(run, new), new, spawns) ELSE run

(* Stop "old", then raise "new", as far as the first await. *)
Replace(run, old, new, spawns) == AfterStop(Stop(run, old), new, spawns)

(* The await at which run stands is over: on to the next. *)
Resume(run, old, new, spawns) ==
  CASE run.at = "stop" -> AfterStop(StopDone(run, old), new, spawns)
    [] run.at = "init" -> AfterInit(InitDone(run, new), new, spawns)
    [] run.at = "start" -> AfterStart(StartDone(run, new, spawns), new)

(* A call whose threads are over leaves nothing behind. *)
Tidy(rec) == IF rec.at = "idle" /\ rec.inner = "none" THEN NoCall ELSE rec

Moves(run) == adapters' = run.adapters /\ active' = run.active

(* Fault: a rollback that failed counts as a rollback. *)
BackReachesAlways(c, rec, run) ==
  /\ call' = [call EXCEPT ![c] =
       Tidy([rec EXCEPT !.back = Waiting(run), !.streams = run.streams,
                        !.at = IF run.at \in Awaits THEN "rollback" ELSE "idle"])]
  /\ machine' = IF run.at \in Awaits THEN run.machine ELSE Transitions[run.machine].switch_rollback
  /\ Moves(run)

(* Fault: the error of a failed rollback is thrown before the machine moves. *)
BackReachesQuietly(c, rec, run) ==
  /\ call' = [call EXCEPT ![c] =
       Tidy([rec EXCEPT !.back = Waiting(run), !.streams = run.streams,
                        !.at = IF run.at \in Awaits THEN "rollback" ELSE "idle"])]
  /\ machine' = IF run.at = "done" THEN Transitions[run.machine].switch_rollback ELSE run.machine
  /\ Moves(run)

(* The rollback of call c, whose record is by now rec, comes as far as run. *)
BackReaches(c, rec, run) ==
  /\ call' = [call EXCEPT ![c] =
       Tidy([rec EXCEPT !.back = Waiting(run), !.streams = run.streams,
                        !.at = IF run.at \in Awaits THEN "rollback" ELSE "idle"])]
  /\ machine' = CASE run.at = "done" -> Transitions[run.machine].switch_rollback
                  [] run.at = "failed" -> Transitions[run.machine].switch_failure
                  [] OTHER -> run.machine
  /\ Moves(run)

RollBack(c, rec, run, spawns) ==
  \E back \in {Replace(run, rec.to, rec.from, spawns)} : BackReaches(c, rec, back)

(* The switch itself comes as far as run. Nobody waits for it after a timeout. *)
InnerReaches(c, rec, run, spawns) ==
  LET moved == [rec EXCEPT !.inner = Waiting(run), !.streams = run.streams]
  IN IF run.at = "failed" /\ rec.at = "switch"
       THEN RollBack(c, moved, run, spawns)
       ELSE LET won == run.at = "done" /\ rec.at = "switch"
            IN /\ call' = [call EXCEPT ![c] =
                    Tidy([moved EXCEPT !.at = IF won THEN "idle" ELSE @])]
               /\ machine' = IF won THEN Transitions[run.machine].switch_success ELSE run.machine
               /\ Moves(run)

RunOf(rec, label) ==
  [adapters |-> adapters, active |-> active, streams |-> rec.streams, at |-> label,
   machine |-> machine]

(* A caller has the streams the active renderer has bound, or others. *)
MayPass(s) ==
  CASE s = "locked" -> adapters[active].bound
    [] s = "free" -> TRUE
    [] s = "none" -> ~adapters[active].bound

(* switchRenderer: switch_request, then unbindStreams and what follows. *)
Call(c, to, s) ==
  /\ call[c] = NoCall
  /\ "switch_request" \in DOMAIN Transitions[machine]
  /\ to # active
  /\ MayPass(s)
  /\ LET rec == [NoCall EXCEPT !.at = "switch", !.from = active, !.to = to, !.streams = s]
         run == [RunOf(rec, "done") EXCEPT !.machine = Transitions[@].switch_request]
         unbound == [run EXCEPT !.adapters[active].bound = @ /\ s = "none"]
     IN \E first \in {Replace(unbound, active, to, spawns) : spawns \in BOOLEAN},
           again \in BOOLEAN : InnerReaches(c, rec, first, again)
  /\ UNCHANGED <<falling, late, crashes, timedOut>>

(* The await of the switch, or of its rollback, is over. *)
InnerResumes(c) ==
  LET rec == call[c]
  IN /\ rec.inner # "none"
     /\ \E run \in {Resume(RunOf(rec, rec.inner), rec.from, rec.to, spawns) : spawns \in BOOLEAN},
           again \in BOOLEAN : InnerReaches(c, rec, run, again)
     /\ UNCHANGED <<falling, late, crashes, timedOut>>

BackResumes(c) ==
  LET rec == call[c]
  IN /\ rec.back # "none"
     /\ \E run \in {Resume(RunOf(rec, rec.back), rec.to, rec.from, spawns) : spawns \in BOOLEAN} :
          BackReaches(c, rec, run)
     /\ UNCHANGED <<falling, late, crashes, timedOut>>

(* withTimeout rejects; the switch it gave up on goes on. *)
TimesOut(c) ==
  LET rec == call[c]
  IN /\ rec.at = "switch"
     /\ timedOut' = TRUE
     /\ \E spawns \in BOOLEAN : RollBack(c, rec, RunOf(rec, "failed"), spawns)
     /\ UNCHANGED <<falling, late, crashes>>

GhosttyCrashes ==
  /\ adapters[Ghostty].process = "live"
  /\ crashes < MaxCrashes
  /\ crashes' = crashes + 1
  /\ adapters' = GhosttyExits(adapters)
  /\ UNCHANGED <<machine, active, call, falling, late, timedOut>>

(* Rio's process exits, and its fallback begins. *)
RioCrashes ==
  /\ adapters[Rio].process = "live"
  /\ crashes < MaxCrashes
  /\ crashes' = crashes + 1
  /\ adapters' = RioExits(adapters, falling)
  /\ active' = IF FallsAtOnce(adapters, falling) THEN Ghostty ELSE active
  /\ falling' = (falling \/ (FallsBack(adapters, falling) /\ ~FallsAtOnce(adapters, falling)))
  /\ UNCHANGED <<machine, call, late, timedOut>>

(* Ghostty's init, awaited by the fallback, is over. *)
FallbackEnds ==
  /\ falling
  /\ falling' = FALSE
  /\ adapters' = FallbackDone(adapters)
  /\ active' = Ghostty
  /\ UNCHANGED <<machine, call, late, crashes, timedOut>>

FallbackTimesOut ==
  /\ falling /\ ~late
  /\ falling' = FALSE
  /\ late' = TRUE
  /\ adapters' = FallbackExpired(adapters)
  /\ UNCHANGED <<machine, active, call, crashes, timedOut>>

LateInitEnds ==
  /\ late
  /\ late' = FALSE
  /\ adapters' = LateInitDone(adapters)
  /\ UNCHANGED <<machine, active, call, falling, crashes, timedOut>>

Next ==
  \/ \E c \in Calls, to \in Renderers, s \in Streams : Call(c, to, s)
  \/ \E c \in Calls : InnerResumes(c) \/ BackResumes(c) \/ TimesOut(c)
  \/ GhosttyCrashes
  \/ RioCrashes
  \/ FallbackEnds
  \/ FallbackTimesOut
  \/ LateInitEnds

Spec == Init /\ [][Next]_vars

(* stop ends with SIGKILL, init and the look-up of a binary with a process *)
(* that exits by itself: what is awaited comes, in a switch or a rollback. *)
FairSpec ==
  /\ Spec
  /\ \A c \in Calls : WF_vars(InnerResumes(c)) /\ WF_vars(BackResumes(c))

-------------------------------------------------------------------------------
Busy == {c \in Calls : call[c].at # "idle"}

Settled == machine = "running" /\ \A c \in Calls : call[c] = NoCall

(* The machine is "switching" while, and only while, one call is at work: *)
(* overlapping switches are refused by the machine's table alone.          *)
OneSwitchAtATime ==
  IF machine = "switching" THEN \E c \in Calls : Busy = {c} ELSE Busy = {}

(* If no switch timed out and no process crashed, then between switches,   *)
(* failed ones included, the active renderer and no other runs.            *)
ActiveAloneRuns == Settled /\ ~timedOut /\ crashes = 0 => OneShown(adapters, active)

(* When a switch or its rollback returns with the machine "running", after *)
(* a timeout too, the active renderer runs at that moment.                  *)
ReturnsWithOneShown ==
  [][machine = "switching" /\ machine' = "running" /\ crashes = 0 =>
       adapters'[active'].state = "running" /\ adapters'[active'].process = "live"]_vars

(* A switch ends, with or without rollback. *)
SwitchEnds == machine = "switching" ~> machine # "switching"
===============================================================================
