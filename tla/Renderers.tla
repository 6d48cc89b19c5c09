------------------------------- MODULE Renderers -------------------------------
(***************************************************************************)
(* The two renderer adapters (renderer/ghostty/backend.ts with process.ts, *)
(* renderer/rio/backend.ts with process.ts) as the code that replaces one  *)
(* by the other sees them: what init, start and stop do up to their next   *)
(* await, and after it.                                                    *)
(*                                                                         *)
(* A process is "idle" when the adapter holds a process object that runs   *)
(* nothing, "dying" from SIGTERM until it exits. A stray is a process that *)
(* runs with no object holding it. "bound" says that streams are bound.    *)
(***************************************************************************)
EXTENDS Naturals

CONSTANTS Ghostty, Rio,
          MaxCrashes     (* bounds the exits of renderer processes *)

ASSUME RenderersAssumption == Ghostty # Rio

ASSUME CrashesAssumption == MaxCrashes \in Nat

VARIABLES adapters,
          falling,     (* rio's fallback awaits ghostty's init *)
          late,        (* ... so does one that timed out       *)
          crashes

Renderers == {Ghostty, Rio}

RendererState == {"uninitialized", "initializing", "running", "switching",
                  "stopping", "stopped", "errored"}

Adapter == [state : RendererState, process : {"none", "idle", "live", "dying"},
            stray : BOOLEAN, bound : BOOLEAN]

Fresh(r) == [state |-> "uninitialized", process |-> IF r = Ghostty THEN "idle" ELSE "none",
             stray |-> FALSE, bound |-> FALSE]

Shown(b) == [state |-> "running", process |-> "live", stray |-> FALSE, bound |-> b]

-------------------------------------------------------------------------------
(***************************************************************************)
(* Code that raises a renderer is a run: a record with the adapters,       *)
(* whatever else that code carries, and in "at" where it stands: at the    *)
(* await of a stop, an init or a start, past it ("stopped", "inited",      *)
(* "started"), or "failed" when the adapter threw.                         *)
(***************************************************************************)
(* stop, up to the await of the process. *)
StopBegins(a) ==
  [a EXCEPT !.state = "stopping", !.bound = FALSE,
            !.process = IF @ = "live" THEN "dying" ELSE @]

(* stop, after it. A process that another start put there is not stopped. *)
StopEnds(r, a) ==
  [a EXCEPT !.state = "stopped", !.process = IF r = Ghostty THEN "idle" ELSE "none",
            !.stray = @ \/ a.process = "live"]

(* Process.start, once it spawns. *)
Spawned(a) == [a EXCEPT !.process = "live", !.stray = @ \/ a.process = "live"]

At(run, r, a, label) == [run EXCEPT !.adapters[r] = a, !.at = label]

(* stop. Nothing to do at rest, nothing to await without a process. *)
Stop(run, r) ==
  LET a == run.adapters[r]
      stopping == StopBegins(a)
  IN IF a.state \in {"stopped", "uninitialized"}
       THEN At(run, r, a, "stopped")
       ELSE IF stopping.process = "dying"
              THEN At(run, r, stopping, "stop")
              ELSE At(run, r, StopEnds(r, stopping), "stopped")

GhosttyInits(a) == a.state \in {"uninitialized", "stopped", "errored"}

(* init. Ghostty's awaits its capabilities; rio's awaits nothing, and makes *)
(* a new process object unless it runs already.                             *)
InitRenderer(run, r) ==
  LET a == run.adapters[r]
  IN IF r = Ghostty
       THEN IF GhosttyInits(a)
              THEN At(run, r, [a EXCEPT !.state = "initializing"], "init")
              ELSE At(run, r, a, "failed")
       ELSE IF a.state = "running"
              THEN At(run, r, a, "inited")
              ELSE At(run, r, [a EXCEPT !.state = "running", !.process = "idle",
                                        !.stray = @ \/ a.process = "live"], "inited")

(* start. Ghostty's awaits a look-up of the binary, rio's awaits nothing. *)
Start(run, r, spawns) ==
  LET a == run.adapters[r]
  IN IF r = Ghostty
       THEN At(run, r, a, IF a.state = "running" /\ a.process = "idle" THEN "start" ELSE "failed")
       ELSE IF a.process = "none" \/ a.state # "running"
              THEN At(run, r, a, "failed")
              ELSE IF spawns
                     THEN At(run, r, Spawned(a), "started")
                     ELSE At(run, r, [a EXCEPT !.process = "idle",
                                               !.stray = @ \/ a.process = "live"], "failed")

(* The await at which the run stands is over. *)
StopDone(run, r) == At(run, r, StopEnds(r, run.adapters[r]), "stopped")

InitDone(run, r) == At(run, r, [run.adapters[r] EXCEPT !.state = "running"], "inited")

StartDone(run, r, spawns) ==
  IF spawns THEN At(run, r, Spawned(run.adapters[r]), "started")
            ELSE At(run, r, run.adapters[r], "failed")

(* Ghostty binds while it runs only; rio does not ask. *)
Binds(r, a) == r = Ghostty => a.state = "running"

-------------------------------------------------------------------------------
(***************************************************************************)
(* The exits of processes. Rio's, while it runs, starts a fallback, one at *)
(* a time ("awaited"), which initialises ghostty if it has to.             *)
(***************************************************************************)
GhosttyExits(as) == [as EXCEPT ![Ghostty].process = "idle", ![Ghostty].state = "errored"]

FallsBack(as, awaited) == as[Rio].state = "running" /\ ~awaited

(* Ghostty needs no init, and nothing is awaited. *)
FallsAtOnce(as, awaited) == FallsBack(as, awaited) /\ ~GhosttyInits(as[Ghostty])

Abandoned(a, state) == [a EXCEPT !.state = state, !.process = "none", !.bound = FALSE]

RioExits(as, awaited) ==
  IF FallsAtOnce(as, awaited)
    THEN [as EXCEPT ![Rio] = Abandoned(@, "stopped")]
    ELSE IF FallsBack(as, awaited)
           THEN [as EXCEPT ![Rio] = Abandoned(@, "errored"), ![Ghostty].state = "initializing"]
           ELSE [as EXCEPT ![Rio].process = "idle",
                           ![Rio].state = IF @ = "running" THEN "errored" ELSE @]

(* Ghostty's init is over in time for the fallback, or later, or not in time. *)
FallbackDone(as) == [as EXCEPT ![Ghostty].state = "running", ![Rio].state = "stopped"]

LateInitDone(as) == [as EXCEPT ![Ghostty].state = "running"]

FallbackExpired(as) == [as EXCEPT ![Rio].state = "errored"]

-------------------------------------------------------------------------------
(* r runs, and nothing else does. *)
OneShown(as, r) ==
  /\ as[r].state = "running"
  /\ as[r].process = "live"
  /\ \A q \in Renderers :
       /\ ~as[q].stray
       /\ q # r => as[q].process \notin {"live", "dying"} /\ ~as[q].bound
===============================================================================
